---- MODULE Spec2Model ----
(***************************************************************************)
(* Model of the bakery breadboard builder (src/src/breadboard) and of the  *)
(* FTD container codec (src/src/ftd_data.rs).                              *)
(*                                                                         *)
(* Node indices and output indices are 0-based as in the source; TLA+      *)
(* sequences are 1-based, so node i of a graph is components[g][i + 1].    *)
(* f32 / f64 parameters are modelled by integers (the values the model     *)
(* draws are integral); a byte is an integer in 0..255; a Uuid is its      *)
(* sequence of 16 bytes; a String is its sequence of UTF-8 bytes.          *)
(***************************************************************************)
EXTENDS Integers, Sequences, FiniteSets, TLC

VARIABLES components, lines, last, ser, minted, panicked,
          eval_inputs, eval_last,
          c_in, c_out

gvars == <<components, lines, last, ser, minted, panicked>>
evars == <<eval_inputs, eval_last>>
cvars == <<c_in, c_out>>
vars == <<components, lines, last, ser, minted, panicked,
          eval_inputs, eval_last, c_in, c_out>>

(***************************************************************************)
(* Bounds of the model.                                                    *)
(***************************************************************************)
\* builder calls made in one run, over both graphs
MaxCalls == 2
\* largest input group handed to multiply
MaxGroup == 2
\* Uuid::new_v4 draws after which no further serialization is started
MaxMinted == 6
\* wire addresses offered to Evaluator::get_input
NumAddrs == 7
\* chunk payloads are drawn up to this many bytes
MaxBytesLen == 520
\* body lengths are drawn around 0..MaxBodyWords multiples of u16::MAX
MaxBodyWords == 2
\* serializations made of one blueprint
MaxRuns == 2
\* output expressions of one expression node
MaxExprs == 2
\* builder calls made in one run of the calls that verify their handles
MaxVerifiedCalls == 3

(***************************************************************************)
(* Program constants.                                                      *)
(***************************************************************************)
COMPONENT_ID_START == 72542
U16_MAX == 65535
U24_LIMIT == 16777216
CHUNK_MAX == 255
TARGET_INFO_OUTPUTS == 7

\* the two Breadboard instances of a run
Graphs == {"X", "Y"}

(***************************************************************************)
(* Small helpers over sequences.                                           *)
(***************************************************************************)
Range(s) == {s[i] : i \in DOMAIN s}

Min2(a, b) == IF a <= b THEN a ELSE b

\* f32::NAN.  An f32 is modelled by an integer; NaN is the one value that is
\* no number, kept apart from every number the model draws, and looked at
\* only through is_nan.
NaN == -1000000000

is_nan(x) == x = NaN

\* `a < b` and `a <= b` of f32: false when either side is NaN
f32_lt(a, b) == ~is_nan(a) /\ ~is_nan(b) /\ a < b
f32_le(a, b) == ~is_nan(a) /\ ~is_nan(b) /\ a <= b

\* the assert! that opens f32::clamp: it panics when min > max or when
\* either bound is NaN
clamp_assert(lo, hi) == f32_le(lo, hi)

\* f32::clamp(n, lo, hi) past its assert: NaN comes back as NaN
clamp(n, lo, hi) == IF f32_lt(n, lo) THEN lo ELSE IF f32_lt(hi, n) THEN hi ELSE n

(***************************************************************************)
(* ftd_data.rs: identifiers                                                *)
(***************************************************************************)
\* the closure `swap` of ftd_uuid_to_uuid: exchange bytes a and b (0-based)
swap(bytes, a, b) ==
    [bytes EXCEPT ![a + 1] = bytes[b + 1], ![b + 1] = bytes[a + 1]]

\* mutant: the second exchange takes byte 3 instead of byte 2
ftd_uuid_to_uuid_overlap(uuid) ==
    swap(swap(swap(swap(uuid, 0, 3), 1, 3), 4, 5), 6, 7)

ftd_uuid_to_uuid(uuid) ==
    swap(swap(swap(swap(uuid, 0, 3), 1, 2), 4, 5), 6, 7)

\* Uuid::new_v4(): the n-th draw of the generator, n >= 1.  Distinct draws
\* give distinct values (byte 0 is a bijection of n mod 256); the version
\* and variant bits are those of a version-4 identifier.
new_v4(n) ==
    [j \in 1..16 |->
        IF j = 7 THEN 64 + ((n * 5 + 3) % 16)
        ELSE IF j = 9 THEN 128 + ((n * 11 + 7) % 64)
        ELSE (n * 37 + (j - 1) * 59 + 11) % 256]

(***************************************************************************)
(* ftd_data.rs: container model                                            *)
(***************************************************************************)
\* SectionData::default / BlockData::default: an empty HashMap
EmptyMap == [k \in {} |-> 0]

\* HashMap::insert as used by add_entry / with_entry / add_section_data
with_entry(map, id, entry) ==
    [k \in (DOMAIN map) \cup {id} |-> IF k = id THEN entry ELSE map[k]]

DataEntry(tag, val) == [tag |-> tag, val |-> val]

\* mutant: 2^24 itself is let through
SectionId_ok_le(n) == n <= U24_LIMIT

\* SectionId::new / BlockIndex::new succeed exactly below 2^24
SectionId_ok(n) == n < U24_LIMIT

\* BlockIndex::new: the same test as SectionId::new
BlockIndex_ok(n) == n < U24_LIMIT

(***************************************************************************)
(* breadboard/mod.rs: wires and components                                 *)
(***************************************************************************)
LineInner(ci, oi) == [component_index |-> ci, output_index |-> oi]

\* Line::new; `kind` is the phantom LineValue type of the handle
Line(g, ci, oi, kind) ==
    [inner |-> LineInner(ci, oi), breadboard |-> g, kind |-> kind]

Component(kind, params, inputs, exprs) ==
    [kind |-> kind, params |-> params, inputs |-> inputs, exprs |-> exprs]

\* Component::ftd_uuid of every implementor: the catalog identifier
ftd_uuid(c) ==
    CASE c.kind = "Constant" ->
           <<145, 66, 199, 13, 120, 51, 65, 205, 128, 77, 85, 78, 153, 11, 105, 4>>
      [] c.kind = "RandomInput" ->
           <<38, 139, 125, 178, 188, 207, 65, 253, 140, 250, 63, 33, 210, 242, 186, 203>>
      [] c.kind = "Altitude" ->
           <<174, 70, 87, 43, 223, 248, 65, 83, 151, 220, 20, 97, 8, 243, 166, 79>>
      [] c.kind = "Position" ->
           <<226, 13, 106, 58, 192, 185, 70, 101, 135, 73, 122, 133, 196, 10, 250, 190>>
      [] c.kind = "Speed" ->
           <<200, 246, 68, 67, 184, 31, 75, 117, 129, 5, 24, 205, 110, 69, 53, 57>>
      [] c.kind = "Velocity" ->
           <<200, 246, 68, 67, 184, 31, 75, 117, 129, 5, 24, 205, 110, 69, 53, 57>>
      [] c.kind = "TargetInfo" ->
           <<83, 144, 188, 240, 208, 157, 64, 184, 153, 163, 141, 55, 82, 230, 86, 198>>
      [] c.kind = "Multiply" ->
           <<147, 14, 83, 49, 206, 207, 64, 138, 141, 144, 218, 198, 180, 121, 213, 176>>
      [] c.kind = "Switch" ->
           <<88, 29, 224, 30, 55, 84, 69, 246, 145, 51, 245, 20, 67, 132, 78, 202>>
      [] c.kind = "Evaluator" ->
           <<124, 243, 183, 6, 117, 126, 66, 138, 187, 69, 69, 74, 23, 237, 113, 10>>

\* Component::uuid (default method of the trait)
uuid(c) == ftd_uuid_to_uuid(ftd_uuid(c))

\* Component::num_outputs of every implementor
num_outputs(c) ==
    CASE c.kind = "TargetInfo" -> TARGET_INFO_OUTPUTS
      [] c.kind = "Evaluator" -> Len(c.exprs)
      [] OTHER -> 1

\* Component::inputs of every implementor
inputs(c) ==
    IF c.kind \in {"Multiply", "Switch", "Evaluator"} THEN c.inputs ELSE <<>>

(***************************************************************************)
(* breadboard/evaluator.rs: expressions                                    *)
(***************************************************************************)
Expr(op, args, val) == [op |-> op, args |-> args, val |-> val]

\* Option::None of get_input / from_input_index
None == Expr("None", <<>>, 0)

\* the first index of the slice holding x, when there is one
FirstIndex(s, x) == CHOOSE i \in DOMAIN s : s[i] = x /\ \A j \in 1..(i - 1) : s[j] # x

from_input_index(n) ==
    CASE n = 0 -> Expr("InputA", <<>>, 0)
      [] n = 1 -> Expr("InputB", <<>>, 0)
      [] n = 2 -> Expr("InputC", <<>>, 0)
      [] n = 3 -> Expr("InputD", <<>>, 0)
      [] n = 4 -> Expr("InputE", <<>>, 0)
      [] OTHER -> None

\* mutant: no search for an address already stored
get_input_no_dedup(ins, input_line) ==
    LET expr == from_input_index(Len(ins)) IN
    IF expr = None
    THEN [inputs |-> ins, expr |-> None]
    ELSE [inputs |-> Append(ins, input_line), expr |-> expr]

\* Evaluator::get_input on an evaluator whose input list is `ins`:
\* the input list afterwards and the returned Option
get_input(ins, input_line) ==
    IF \E i \in DOMAIN ins : ins[i] = input_line
    THEN [inputs |-> ins, expr |-> from_input_index(FirstIndex(ins, input_line) - 1)]
    ELSE LET expr == from_input_index(Len(ins)) IN
         IF expr = None
         THEN [inputs |-> ins, expr |-> None]
         ELSE [inputs |-> Append(ins, input_line), expr |-> expr]

(***************************************************************************)
(* breadboard/mod.rs: builder calls.  A builder operator takes the node    *)
(* list of the graph it is called on and gives the outcome of the call:    *)
(* whether it panicked, the node list it leaves, and the handles returned. *)
(***************************************************************************)
Panic(cs) == [panic |-> TRUE, components |-> cs, ret |-> <<>>]

verify_line(g, line) == g = line.breadboard

\* mutant: the length after the push is returned as the index
insert_component_len(cs, component) ==
    [components |-> Append(cs, component), index |-> Len(Append(cs, component))]

\* Vec::push, then components.len() - 1
insert_component(cs, component) ==
    [components |-> Append(cs, component), index |-> Len(Append(cs, component)) - 1]

insert_component_with_output(g, cs, component, kind) ==
    LET r == insert_component(cs, component) IN
    [panic |-> FALSE, components |-> r.components,
     ret |-> <<Line(g, r.index, 0, kind)>>]

constant(g, cs, n) ==
    insert_component_with_output(g, cs,
        Component("Constant", <<clamp(n, -10000, 10000)>>, <<>>, <<>>), "BNumber")

random_number(g, cs, min, max) ==
    LET min1 == clamp(min, -10000, 10000)
        max1 == clamp(max, min1, 10000)
    IN IF ~clamp_assert(min1, 10000) THEN Panic(cs)
       ELSE insert_component_with_output(g, cs,
                Component("RandomInput", <<min1, max1>>, <<>>, <<>>), "BNumber")

altitude(g, cs, altitude_type) ==
    insert_component_with_output(g, cs,
        Component("Altitude", <<altitude_type>>, <<>>, <<>>), "BNumber")

position(g, cs) ==
    insert_component_with_output(g, cs,
        Component("Position", <<>>, <<>>, <<>>), "BVector3")

speed(g, cs, speed_type) ==
    insert_component_with_output(g, cs,
        Component("Speed", <<speed_type>>, <<>>, <<>>), "BNumber")

velocity(g, cs, speed_type) ==
    insert_component_with_output(g, cs,
        Component("Velocity", <<speed_type>>, <<>>, <<>>), "BVector3")

\* the kinds of TargetInfoOutputs: present, distance, altitude, bearing,
\* position, velocity, volume
TargetInfoKinds ==
    <<"BNumber", "BNumber", "BNumber", "BNumber", "BVector3", "BVector3", "BNumber">>

\* mutant: the output indices of the handles start at 1
target_info_from_one(g, cs) ==
    LET r == insert_component(cs, Component("TargetInfo", <<>>, <<>>, <<>>)) IN
    [panic |-> FALSE, components |-> r.components,
     ret |-> [k \in 1..TARGET_INFO_OUTPUTS |-> Line(g, r.index, k, TargetInfoKinds[k])]]

target_info(g, cs) ==
    LET r == insert_component(cs, Component("TargetInfo", <<>>, <<>>, <<>>)) IN
    [panic |-> FALSE, components |-> r.components,
     ret |-> [k \in 1..TARGET_INFO_OUTPUTS |-> Line(g, r.index, k - 1, TargetInfoKinds[k])]]

\* InputGroup::as_vec
as_vec(group) == [k \in DOMAIN group |-> group[k].inner]

multiply(g, cs, group, multiplier) ==
    insert_component_with_output(g, cs,
        Component("Multiply", <<clamp(multiplier, -100, 100)>>, as_vec(group), <<>>),
        "BNumber")

\* mutant: the node is pushed before the handles are verified
switch_push_first(g, cs, passthrough, switch_signal, options) ==
    LET r == insert_component_with_output(g, cs,
                Component("Switch",
                          <<clamp(options.threshhold, -10000, 10000),
                            clamp(options.open_value, -10000, 10000)>>,
                          <<passthrough.inner, switch_signal.inner>>, <<>>),
                "BNumber")
    IN IF ~verify_line(g, passthrough) \/ ~verify_line(g, switch_signal)
       THEN [panic |-> TRUE, components |-> r.components, ret |-> <<>>]
       ELSE r

switch(g, cs, passthrough, switch_signal, options) ==
    IF ~verify_line(g, passthrough) THEN Panic(cs)
    ELSE IF ~verify_line(g, switch_signal) THEN Panic(cs)
    ELSE insert_component_with_output(g, cs,
        Component("Switch",
                  <<clamp(options.threshhold, -10000, 10000),
                    clamp(options.open_value, -10000, 10000)>>,
                  <<passthrough.inner, switch_signal.inner>>, <<>>),
        "BNumber")

(***************************************************************************)
(* breadboard/evaluator.rs: expression builders                            *)
(***************************************************************************)
evaluator_expr(g, cs, val1, variant, out) ==
    IF ~verify_line(g, val1) THEN Panic(cs)
    ELSE LET r1 == get_input(<<>>, val1.inner) IN
         IF r1.expr = None THEN Panic(cs)
         ELSE insert_component_with_output(g, cs,
                Component("Evaluator", <<>>, r1.inputs,
                          <<Expr(variant, <<r1.expr>>, 0)>>), out)

\* mutant: the two slot expressions are handed to expr_fn in the other order
evaluator_expr2_swapped(g, cs, val1, val2, variant, out) ==
    IF ~verify_line(g, val1) THEN Panic(cs)
    ELSE LET r1 == get_input(<<>>, val1.inner) IN
         IF r1.expr = None THEN Panic(cs)
         ELSE LET r2 == get_input(r1.inputs, val2.inner) IN
         IF r2.expr = None THEN Panic(cs)
         ELSE insert_component_with_output(g, cs,
                Component("Evaluator", <<>>, r2.inputs,
                          <<Expr(variant, <<r2.expr, r1.expr>>, 0)>>), out)

evaluator_expr2(g, cs, val1, val2, variant, out) ==
    IF ~verify_line(g, val1) THEN Panic(cs)
    ELSE LET r1 == get_input(<<>>, val1.inner) IN
         IF r1.expr = None THEN Panic(cs)
         ELSE LET r2 == get_input(r1.inputs, val2.inner) IN
         IF r2.expr = None THEN Panic(cs)
         ELSE insert_component_with_output(g, cs,
                Component("Evaluator", <<>>, r2.inputs,
                          <<Expr(variant, <<r1.expr, r2.expr>>, 0)>>), out)

evaluator_expr3(g, cs, val1, val2, val3, variant, out) ==
    IF ~verify_line(g, val1) THEN Panic(cs)
    ELSE LET r1 == get_input(<<>>, val1.inner) IN
         IF r1.expr = None THEN Panic(cs)
         ELSE LET r2 == get_input(r1.inputs, val2.inner) IN
         IF r2.expr = None THEN Panic(cs)
         ELSE LET r3 == get_input(r2.inputs, val3.inner) IN
         IF r3.expr = None THEN Panic(cs)
         ELSE insert_component_with_output(g, cs,
                Component("Evaluator", <<>>, r3.inputs,
                          <<Expr(variant, <<r1.expr, r2.expr, r3.expr>>, 0)>>), out)

new_vector(g, cs, x, y, z) ==
    insert_component_with_output(g, cs,
        Component("Evaluator", <<>>, <<>>,
                  <<Expr("Vector", <<Expr("Float", <<>>, x), Expr("Float", <<>>, y),
                                     Expr("Float", <<>>, z)>>, 0)>>),
        "BVector3")

(***************************************************************************)
(* breadboard/evaluator.rs: impl Display for EvaluatorExpression.  A text  *)
(* is its sequence of character codes.  The template of a variant is the   *)
(* literal text of its format string around the operands, in order.        *)
(***************************************************************************)
fmt_template(op) ==
    CASE op = "Sin" -> <<<<83, 105, 110, 40>>, <<41>>>>   \* "Sin({val})"
      [] op = "Cos" -> <<<<67, 111, 115, 40>>, <<41>>>>   \* "Cos({val})"
      [] op = "Tan" -> <<<<84, 97, 110, 40>>, <<41>>>>   \* "Tan({val})"
      [] op = "Sqrt" -> <<<<83, 113, 114, 116, 40>>, <<41>>>>   \* "Sqrt({val})"
      [] op = "Asin" -> <<<<65, 115, 105, 110, 40>>, <<41>>>>   \* "Asin({val})"
      [] op = "Acos" -> <<<<65, 99, 111, 115, 40>>, <<41>>>>   \* "Acos({val})"
      [] op = "Atan" -> <<<<65, 116, 97, 110, 40>>, <<41>>>>   \* "Atan({val})"
      [] op = "Atan2" -> <<<<65, 116, 97, 110, 40>>, <<44, 32>>, <<41>>>>   \* "Atan({val1}, {val2})"
      [] op = "Exp" -> <<<<69, 120, 112, 40>>, <<41>>>>   \* "Exp({val})"
      [] op = "Log" -> <<<<76, 111, 103, 40>>, <<41>>>>   \* "Log({val})"
      [] op = "Pow" -> <<<<80, 111, 119, 40>>, <<44, 32>>, <<41>>>>   \* "Pow({val1}, {val2})"
      [] op = "Abs" -> <<<<65, 98, 115, 40>>, <<41>>>>   \* "Abs({val})"
      [] op = "Sign" -> <<<<83, 105, 103, 110, 40>>, <<41>>>>   \* "Sign({val})"
      [] op = "Round" -> <<<<82, 111, 117, 110, 100, 40>>, <<41>>>>   \* "Round({val})"
      [] op = "Floor" -> <<<<70, 108, 111, 111, 114, 40>>, <<41>>>>   \* "Floor({val})"
      [] op = "Ceil" -> <<<<67, 101, 105, 108, 40>>, <<41>>>>   \* "Ceil({val})"
      [] op = "Max2" -> <<<<77, 97, 120, 40>>, <<44, 32>>, <<41>>>>   \* "Max({val1}, {val2})"
      [] op = "Max3" -> <<<<77, 97, 120, 40>>, <<44, 32>>, <<44, 32>>, <<41>>>>   \* "Max({val1}, {val2}, {val3})"
      [] op = "MaxV" -> <<<<77, 97, 120, 40>>, <<41>>>>   \* "Max({val})"
      [] op = "Min2" -> <<<<77, 105, 110, 40>>, <<44, 32>>, <<41>>>>   \* "Min({val1}, {val2})"
      [] op = "Min3" -> <<<<77, 105, 110, 40>>, <<44, 32>>, <<44, 32>>, <<41>>>>   \* "Min({val1}, {val2}, {val3})"
      [] op = "MinV" -> <<<<77, 105, 110, 40>>, <<41>>>>   \* "Min({val})"
      [] op = "If" -> <<<<73, 102, 40>>, <<44, 32>>, <<44, 32>>, <<41>>>>   \* "If({condition}, {true_value}, {false_value})"
      [] op = "Vector" -> <<<<86, 101, 99, 116, 111, 114, 40>>, <<44, 32>>, <<44, 32>>, <<41>>>>   \* "Vector({val1}, {val2}, {val3})"
      [] op = "MakeRotationBetween" -> <<<<70, 114, 111, 109, 84, 111, 82, 111, 116, 40>>, <<44, 32>>, <<>>>>   \* "FromToRot({from_vector}, {to_vector}"
      [] op = "FromEuler" -> <<<<70, 114, 111, 109, 69, 117, 108, 101, 114, 40>>, <<44, 32>>, <<44, 32>>, <<41>>>>   \* "FromEuler({pitch}, {yaw}, {roll})"
      [] op = "FromEularV" -> <<<<70, 114, 111, 109, 69, 117, 108, 101, 114, 40>>, <<41>>>>   \* "FromEuler({val})"
      [] op = "ToEularV" -> <<<<84, 111, 69, 117, 108, 101, 114, 40>>, <<41>>>>   \* "ToEuler({val})"
      [] op = "Angle" -> <<<<65, 110, 103, 108, 101, 40>>, <<41>>>>   \* "Angle({val})"
      [] op = "Axis" -> <<<<65, 120, 105, 115, 40>>, <<41>>>>   \* "Axis({val})"
      [] op = "AngleBetween" -> <<<<65, 110, 103, 108, 101, 40>>, <<44, 32>>, <<41>>>>   \* "Angle({from_vector}, {to_vector})"
      [] op = "SetX" -> <<<<115, 101, 116, 88, 40>>, <<44, 32>>, <<41>>>>   \* "setX({vector}, {x})"
      [] op = "SetY" -> <<<<115, 101, 116, 88, 40>>, <<44, 32>>, <<41>>>>   \* "setX({vector}, {y})"
      [] op = "SetZ" -> <<<<115, 101, 116, 88, 40>>, <<44, 32>>, <<41>>>>   \* "setX({vector}, {z})"
      [] op = "OutputV" -> <<<<111, 117, 116, 112, 117, 116, 86, 40>>, <<41>>>>   \* "outputV({val})"
      [] op = "Output" -> <<<<111, 117, 116, 112, 117, 116, 40>>, <<41>>>>   \* "output({val})"
      [] op = "GetX" -> <<<<40>>, <<41, 46, 120>>>>   \* "({val}).x"
      [] op = "GetY" -> <<<<40>>, <<41, 46, 121>>>>   \* "({val}).y"
      [] op = "GetZ" -> <<<<40>>, <<41, 46, 122>>>>   \* "({val}).z"
      [] op = "Magnitude" -> <<<<40>>, <<41, 46, 109, 97, 103, 110, 105, 116, 117, 100, 101>>>>   \* "({val}).magnitude"
      [] op = "SquareMagnitude" -> <<<<40>>, <<41, 46, 115, 113, 114, 77, 97, 103, 110, 105, 116, 117, 100, 101>>>>   \* "({val}).sqrMagnitude"
      [] op = "RotationInverse" -> <<<<40>>, <<41, 46, 105, 110, 118, 101, 114, 115, 101>>>>   \* "({val}).inverse"
      [] op = "Add" -> <<<<40>>, <<41, 32, 43, 32, 40>>, <<41>>>>   \* "({lhs}) + ({rhs})"
      [] op = "Sub" -> <<<<40>>, <<41, 32, 45, 32, 40>>, <<41>>>>   \* "({lhs}) - ({rhs})"
      [] op = "Cross" -> <<<<40>>, <<41, 32, 120, 32, 40>>, <<41>>>>   \* "({lhs}) x ({rhs})"
      [] op = "Mul" -> <<<<40>>, <<41, 32, 42, 32, 40>>, <<41>>>>   \* "({lhs}) * ({rhs})"
      [] op = "Div" -> <<<<40>>, <<41, 32, 47, 32, 40>>, <<41>>>>   \* "({lhs}) / ({rhs})"
      [] op = "Mod" -> <<<<40>>, <<41, 32, 37, 32, 40>>, <<41>>>>   \* "({lhs}) % ({rhs})"
      [] op = "Eq" -> <<<<40>>, <<41, 32, 61, 32, 40>>, <<41>>>>   \* "({lhs}) = ({rhs})"
      [] op = "Ne" -> <<<<40>>, <<41, 32, 33, 61, 32, 40>>, <<41>>>>   \* "({lhs}) != ({rhs})"
      [] op = "Gt" -> <<<<40>>, <<41, 32, 62, 32, 40>>, <<41>>>>   \* "({lhs}) > ({rhs})"
      [] op = "Gte" -> <<<<40>>, <<41, 32, 62, 61, 32, 40>>, <<41>>>>   \* "({lhs}) >= ({rhs})"
      [] op = "Lt" -> <<<<40>>, <<41, 32, 60, 32, 40>>, <<41>>>>   \* "({lhs}) < ({rhs})"
      [] op = "Lte" -> <<<<40>>, <<41, 32, 60, 61, 32, 40>>, <<41>>>>   \* "({lhs}) <= ({rhs})"
      [] op = "Not" -> <<<<33, 40>>, <<41>>>>   \* "!({val})"
      [] op = "OpAnd" -> <<<<40>>, <<41, 32, 38, 32, 40>>, <<41>>>>   \* "({lhs}) & ({rhs})"
      [] op = "OpOr" -> <<<<40>>, <<41, 32, 124, 32, 40>>, <<41>>>>   \* "({lhs}) | ({rhs})"
      [] op = "FalseCoalesce" -> <<<<40>>, <<41, 32, 111, 114, 32, 40>>, <<41>>>>   \* "({lhs}) or ({rhs})"
      [] op = "Negate" -> <<<<45, 40>>, <<41>>>>   \* "-({val})"

Digit(d) == <<48 + d>>

RECURSIVE fmt_nat(_)
\* decimal text of a natural number
fmt_nat(n) == IF n < 10 THEN Digit(n) ELSE fmt_nat(n \div 10) \o Digit(n % 10)

\* "{val}" of an i64, and of an f64 holding an integral value
fmt_number(val) == IF val < 0 THEN <<45>> \o fmt_nat(-val) ELSE fmt_nat(val)

RECURSIVE fmt(_)
RECURSIVE fmt_operands(_, _, _)
\* the text of template t from operand k on: operand k, the literal after it, ...
fmt_operands(e, t, k) ==
    IF k > Len(e.args) THEN <<>>
    ELSE fmt(e.args[k]) \o t[k + 1] \o fmt_operands(e, t, k + 1)

fmt(e) ==
    CASE e.op = "InputA" -> <<97>>
      [] e.op = "InputB" -> <<98>>
      [] e.op = "InputC" -> <<99>>
      [] e.op = "InputD" -> <<100>>
      [] e.op = "InputE" -> <<101>>
      [] e.op \in {"Int", "Float"} -> fmt_number(e.val)
      [] OTHER -> LET t == fmt_template(e.op) IN t[1] \o fmt_operands(e, t, 1)

RECURSIVE expr_string_lead(_, _)
\* mutant: the separator is pushed before the first expression as well
expr_string_lead(exprs, i) ==
    IF i > Len(exprs) THEN <<>>
    ELSE <<44>> \o fmt(exprs[i]) \o expr_string_lead(exprs, i + 1)

RECURSIVE expr_string(_, _)
\* the loop of Evaluator::section_data from expression i on (1-based)
expr_string(exprs, i) ==
    IF i > Len(exprs) THEN <<>>
    ELSE (IF i # 1 THEN <<44>> ELSE <<>>) \o fmt(exprs[i]) \o expr_string(exprs, i + 1)

(***************************************************************************)
(* breadboard/mod.rs: Component::section_data of every implementor         *)
(***************************************************************************)
section_data(c) ==
    CASE c.kind = "Constant" ->
           with_entry(EmptyMap, 0, DataEntry("F32", c.params[1]))
      [] c.kind = "RandomInput" ->
           with_entry(EmptyMap, 0, DataEntry("Vector2", <<c.params[1], c.params[2]>>))
      [] c.kind \in {"Altitude", "Speed", "Velocity"} ->
           with_entry(EmptyMap, 0, DataEntry("U32", c.params[1]))
      [] c.kind \in {"Position", "TargetInfo"} -> EmptyMap
      [] c.kind = "Multiply" ->
           with_entry(EmptyMap, 0, DataEntry("F32", c.params[1]))
      [] c.kind = "Switch" ->
           with_entry(with_entry(EmptyMap, 0, DataEntry("F32", c.params[1])),
                      1, DataEntry("F32", c.params[2]))
      [] c.kind = "Evaluator" ->
           with_entry(EmptyMap, 0, DataEntry("String", expr_string(c.exprs, 1)))

\* mutant: the position entries are written from entry 0 on
set_section_data_position_low(x, y, section) ==
    with_entry(with_entry(with_entry(with_entry(section,
        0, DataEntry("F32", x)),
        1, DataEntry("F32", y)),
        2, DataEntry("F32", 25)),
        3, DataEntry("F32", 25))

\* ComponentPosition::new(x, y).set_section_data_position
set_section_data_position(x, y, section) ==
    with_entry(with_entry(with_entry(with_entry(section,
        8000, DataEntry("F32", x)),
        8001, DataEntry("F32", y)),
        8002, DataEntry("F32", 25)),
        8003, DataEntry("F32", 25))

(***************************************************************************)
(* breadboard/mod.rs: BreadboardWireMap.  `data` is the 2d array, the n-th *)
(* component's identifiers at data[n + 1]; n counts the draws of           *)
(* Uuid::new_v4 made so far.                                               *)
(***************************************************************************)
BreadboardWireMap_new(num_components) == [i \in 1..num_components |-> <<>>]

set_num_outputs(data, component_index, num, n) ==
    [data EXCEPT ![component_index + 1] = @ \o [x \in 1..num |-> new_v4(n + x)]]

\* the indexing data[line.component_index][line.output_index] stays in bounds
output_in_bounds(data, line) ==
    /\ line.component_index < Len(data)
    /\ line.output_index < Len(data[line.component_index + 1])

\* mutant: the output index is ignored
get_output_uuid_first(data, line) ==
    data[line.component_index + 1][1]

get_output_uuid(data, line) ==
    data[line.component_index + 1][line.output_index + 1]

RECURSIVE input_bytes_loop_reuse(_, _, _, _, _)
\* mutant: no identifier is drawn for the descriptor, the last one drawn is
\* written again
input_bytes_loop_reuse(data, ins, j, input_bytes, n) ==
    IF j > Len(ins) THEN [panic |-> FALSE, bytes |-> input_bytes, n |-> n]
    ELSE LET local == new_v4(n) IN
         IF ~output_in_bounds(data, ins[j])
         THEN [panic |-> TRUE, bytes |-> input_bytes \o local, n |-> n]
         ELSE input_bytes_loop_reuse(data, ins, j + 1,
                  input_bytes \o local \o get_output_uuid(data, ins[j]), n)

RECURSIVE input_bytes_loop(_, _, _, _, _)
\* the loop over component.inputs() from input j on (1-based): a fresh
\* identifier, then the identifier of the source output
input_bytes_loop(data, ins, j, input_bytes, n) ==
    IF j > Len(ins) THEN [panic |-> FALSE, bytes |-> input_bytes, n |-> n]
    ELSE LET local == new_v4(n + 1) IN
         IF ~output_in_bounds(data, ins[j])
         THEN [panic |-> TRUE, bytes |-> input_bytes \o local, n |-> n + 1]
         ELSE input_bytes_loop(data, ins, j + 1,
                               input_bytes \o local \o get_output_uuid(data, ins[j]),
                               n + 1)

RECURSIVE output_bytes_loop(_, _)
output_bytes_loop(uuids, k) ==
    IF k > Len(uuids) THEN <<>> ELSE uuids[k] \o output_bytes_loop(uuids, k + 1)

get_component_data_section_with_inputs_and_outputs(data, component_index, component, n) ==
    LET data1 == set_num_outputs(data, component_index, num_outputs(component), n)
        n1 == n + num_outputs(component)
        ins == input_bytes_loop(data1, inputs(component), 1, <<>>, n1)
        output_bytes == output_bytes_loop(data1[component_index + 1], 1)
    IN [panic |-> ins.panic,
        data |-> data1,
        n |-> ins.n,
        section |-> IF ins.panic THEN EmptyMap
                    ELSE with_entry(with_entry(section_data(component),
                                        900, DataEntry("Bytes", ins.bytes)),
                                    901, DataEntry("Bytes", output_bytes))]

(***************************************************************************)
(* breadboard/mod.rs: Breadboard::block_data                               *)
(***************************************************************************)
RECURSIVE block_data_loop(_, _, _, _, _, _)
\* the loop over the components from index i on (0-based)
block_data_loop(cs, i, wire_map, main, data, n) ==
    IF i >= Len(cs)
    THEN [panic |-> FALSE, n |-> n,
          data |-> with_entry(data, 9999, main)]
    ELSE IF 2 * i + 1 > U16_MAX THEN [panic |-> TRUE, n |-> n, data |-> EmptyMap]
    ELSE LET component == cs[i + 1]
             component_id == COMPONENT_ID_START + i
             main1 == with_entry(with_entry(main,
                          2 * i, DataEntry("Uuid", uuid(component))),
                          2 * i + 1, DataEntry("U32", component_id))
             r == get_component_data_section_with_inputs_and_outputs(
                      wire_map, i, component, n)
         IN IF r.panic \/ ~SectionId_ok(component_id)
            THEN [panic |-> TRUE, n |-> r.n, data |-> EmptyMap]
            ELSE block_data_loop(cs, i + 1, r.data, main1,
                     with_entry(data, component_id,
                                set_section_data_position(200 * i, 0, r.section)),
                     r.n)

\* mutant: the identifiers are taken from the start of the generator again,
\* as a table kept from an earlier serialization would give them
block_data_kept(cs, n) ==
    block_data_loop(cs, 0, BreadboardWireMap_new(Len(cs)), EmptyMap,
                    with_entry(with_entry(EmptyMap, 3000, EmptyMap), 72541, EmptyMap),
                    0)

\* block_data on a graph whose node list is cs, after n draws of new_v4
block_data(cs, n) ==
    block_data_loop(cs, 0, BreadboardWireMap_new(Len(cs)), EmptyMap,
                    with_entry(with_entry(EmptyMap, 3000, EmptyMap), 72541, EmptyMap),
                    n)

(***************************************************************************)
(* The calls a run draws.  Scalar arguments come from small sets; wire     *)
(* arguments are handles earlier calls returned, of the LineValue type the *)
(* method's signature asks for (the compiler rejects any other).           *)
(***************************************************************************)
ConstantArgs == {5}
RandomArgs == {<<-3, 7>>}
AltitudeTypes == {0, 4}
SpeedTypes == {0, 3}
VelocityTypes == {3}
MultiplierArgs == {2}
SwitchOptionsArgs == {[threshhold |-> 1, open_value |-> 0]}
VectorArgs == {<<1, 2, 3>>}

\* make_bb_method! instances drawn: name, variant, argument types, result type
Methods1 ==
    {[name |-> "negate", variant |-> "Negate", ins |-> <<"BNumber">>, out |-> "BNumber"],
     [name |-> "magnitude", variant |-> "Magnitude", ins |-> <<"BVector3">>, out |-> "BNumber"]}
Methods2 ==
    {[name |-> "add", variant |-> "Add", ins |-> <<"BNumber", "BNumber">>, out |-> "BNumber"],
     [name |-> "scale", variant |-> "Mul", ins |-> <<"BNumber", "BVector3">>, out |-> "BVector3"]}
Methods3 ==
    {[name |-> "max3", variant |-> "Max3", ins |-> <<"BNumber", "BNumber", "BNumber">>,
      out |-> "BNumber"],
     [name |-> "b_if", variant |-> "If", ins |-> <<"BNumber", "BVector3", "BVector3">>,
      out |-> "BVector3"]}

LinesOf(kind) == {l \in lines : l.kind = kind}

\* the input groups of 1..MaxGroup number wires
Groups ==
    UNION {[1..k -> LinesOf("BNumber")] : k \in 1..MaxGroup}

NoCall ==
    [call |-> "none", bb |-> "none", args |-> <<>>, scalars |-> <<>>, ret |-> <<>>,
     panic |-> FALSE]
NoSer == [bb |-> "none", panic |-> FALSE, nodes |-> 0, data |-> EmptyMap, draws |-> 0]

(***************************************************************************)
(* Specification of the builder and of serialization: two graphs, built by *)
(* any interleaving of calls, serialized at any time.  A panic ends the    *)
(* run.                                                                    *)
(***************************************************************************)
GraphIdle ==
    /\ components = [g \in Graphs |-> <<>>]
    /\ lines = {}
    /\ last = NoCall
    /\ ser = NoSer
    /\ minted = 0
    /\ panicked = FALSE

EvalIdle == eval_inputs = <<>> /\ eval_last = [line |-> LineInner(0, 0), expr |-> None, calls |-> 0]

CodecIdle == c_in = [kind |-> "none"] /\ c_out = [kind |-> "none"]

Init == GraphIdle /\ EvalIdle /\ CodecIdle

\* a further builder call is made: no panic has ended the run
CanCall ==
    /\ ~panicked
    /\ Len(components["X"]) + Len(components["Y"]) < MaxCalls

\* the effect of one builder call on graph g with outcome r; args are the
\* wire handles and scalars the scalar parameters it was given
CallWith(g, name, args, scalars, r) ==
    /\ components' = [components EXCEPT ![g] = r.components]
    /\ lines' = lines \cup Range(r.ret)
    /\ last' = [call |-> name, bb |-> g, args |-> args, scalars |-> scalars,
                ret |-> r.ret, panic |-> r.panic]
    /\ panicked' = r.panic
    /\ UNCHANGED <<ser, minted, evars, cvars>>

Call(g, name, args, r) == CallWith(g, name, args, <<>>, r)

Constant ==
    /\ CanCall
    /\ \E g \in Graphs, n \in ConstantArgs :
           Call(g, "constant", <<>>, constant(g, components[g], n))

RandomNumber ==
    /\ CanCall
    /\ \E g \in Graphs, a \in RandomArgs :
           Call(g, "random_number", <<>>, random_number(g, components[g], a[1], a[2]))

Altitude ==
    /\ CanCall
    /\ \E g \in Graphs, t \in AltitudeTypes :
           Call(g, "altitude", <<>>, altitude(g, components[g], t))

PositionCall ==
    /\ CanCall
    /\ \E g \in Graphs : Call(g, "position", <<>>, position(g, components[g]))

Speed ==
    /\ CanCall
    /\ \E g \in Graphs, t \in SpeedTypes :
           Call(g, "speed", <<>>, speed(g, components[g], t))

Velocity ==
    /\ CanCall
    /\ \E g \in Graphs, t \in VelocityTypes :
           Call(g, "velocity", <<>>, velocity(g, components[g], t))

TargetInfo ==
    /\ CanCall
    /\ \E g \in Graphs : Call(g, "target_info", <<>>, target_info(g, components[g]))

Multiply ==
    /\ CanCall
    /\ \E g \in Graphs, group \in Groups, m \in MultiplierArgs :
           Call(g, "multiply", group, multiply(g, components[g], group, m))

Switch ==
    /\ CanCall
    /\ \E g \in Graphs, p \in LinesOf("BNumber"), s \in LinesOf("BNumber"),
          o \in SwitchOptionsArgs :
           Call(g, "switch", <<p, s>>, switch(g, components[g], p, s, o))

EvaluatorExpr ==
    /\ CanCall
    /\ \E g \in Graphs, m \in Methods1 :
       \E v1 \in LinesOf(m.ins[1]) :
           Call(g, m.name, <<v1>>, evaluator_expr(g, components[g], v1, m.variant, m.out))

EvaluatorExpr2 ==
    /\ CanCall
    /\ \E g \in Graphs, m \in Methods2 :
       \E v1 \in LinesOf(m.ins[1]), v2 \in LinesOf(m.ins[2]) :
           Call(g, m.name, <<v1, v2>>,
                evaluator_expr2(g, components[g], v1, v2, m.variant, m.out))

EvaluatorExpr3 ==
    /\ CanCall
    /\ \E g \in Graphs, m \in Methods3 :
       \E v1 \in LinesOf(m.ins[1]), v2 \in LinesOf(m.ins[2]), v3 \in LinesOf(m.ins[3]) :
           Call(g, m.name, <<v1, v2, v3>>,
                evaluator_expr3(g, components[g], v1, v2, v3, m.variant, m.out))

NewVector ==
    /\ CanCall
    /\ \E g \in Graphs, v \in VectorArgs :
           Call(g, "new_vector", <<>>, new_vector(g, components[g], v[1], v[2], v[3]))

\* Breadboard::block_data of graph g (the serialization save_to_prefab_file starts)
BlockData ==
    \E g \in Graphs :
        /\ ~panicked
        /\ minted < MaxMinted
        /\ LET r == block_data(components[g], minted) IN
            /\ ser' = [bb |-> g, panic |-> r.panic, nodes |-> Len(components[g]),
                       data |-> r.data, draws |-> r.n - minted]
            /\ minted' = r.n
            /\ panicked' = r.panic
        /\ UNCHANGED <<components, lines, last, evars, cvars>>

Next ==
    \/ Constant
    \/ RandomNumber
    \/ Altitude
    \/ PositionCall
    \/ Speed
    \/ Velocity
    \/ TargetInfo
    \/ Multiply
    \/ Switch
    \/ EvaluatorExpr
    \/ EvaluatorExpr2
    \/ EvaluatorExpr3
    \/ NewVector
    \/ BlockData

Spec == Init /\ [][Next]_vars

(***************************************************************************)
(* Specification of the scalar parameters: the four builder calls that     *)
(* clamp, on one graph, with parameters drawn inside, on and beyond the    *)
(* bounds, and NaN.                                                        *)
(***************************************************************************)
ScalarValues == {-20000, -10000, -150, -100, 0, 100, 150, 10000, 20000, NaN}

ScalarPairs ==
    {<<-3, 7>>, <<7, -3>>, <<-20000, 20000>>, <<20000, -20000>>, <<20000, 5>>,
     <<5, -20000>>, <<NaN, 1>>, <<1, NaN>>}

ParamConstant ==
    /\ CanCall
    /\ \E n \in ScalarValues :
           CallWith("X", "constant", <<>>, <<n>>, constant("X", components["X"], n))

ParamRandomNumber ==
    /\ CanCall
    /\ \E a \in ScalarPairs :
           CallWith("X", "random_number", <<>>, a,
                    random_number("X", components["X"], a[1], a[2]))

ParamMultiply ==
    /\ CanCall
    /\ \E group \in Groups, m \in ScalarValues :
           CallWith("X", "multiply", group, <<m>>,
                    multiply("X", components["X"], group, m))

ParamSwitch ==
    /\ CanCall
    /\ \E p \in LinesOf("BNumber"), s \in LinesOf("BNumber"), o \in ScalarPairs :
           CallWith("X", "switch", <<p, s>>, o,
                    switch("X", components["X"], p, s,
                           [threshhold |-> o[1], open_value |-> o[2]]))

NextParams ==
    \/ ParamConstant
    \/ ParamRandomNumber
    \/ ParamMultiply
    \/ ParamSwitch

SpecParams == Init /\ [][NextParams]_vars

(***************************************************************************)
(* Specification of the calls that verify their handles: constant makes    *)
(* the wires, switch and the expression methods are handed wires of either *)
(* graph, in runs of up to MaxVerifiedCalls nodes.  A panic ends the run.  *)
(***************************************************************************)
CanCallVerified ==
    /\ ~panicked
    /\ Len(components["X"]) + Len(components["Y"]) < MaxVerifiedCalls

VerifiedConstant ==
    /\ CanCallVerified
    /\ \E g \in Graphs, n \in ConstantArgs :
           Call(g, "constant", <<>>, constant(g, components[g], n))

VerifiedSwitch ==
    /\ CanCallVerified
    /\ \E g \in Graphs, p \in LinesOf("BNumber"), s \in LinesOf("BNumber"),
          o \in SwitchOptionsArgs :
           Call(g, "switch", <<p, s>>, switch(g, components[g], p, s, o))

VerifiedExpr ==
    /\ CanCallVerified
    /\ \E g \in Graphs, m \in Methods1 :
       \E v1 \in LinesOf(m.ins[1]) :
           Call(g, m.name, <<v1>>, evaluator_expr(g, components[g], v1, m.variant, m.out))

VerifiedExpr2 ==
    /\ CanCallVerified
    /\ \E g \in Graphs, m \in Methods2 :
       \E v1 \in LinesOf(m.ins[1]), v2 \in LinesOf(m.ins[2]) :
           Call(g, m.name, <<v1, v2>>,
                evaluator_expr2(g, components[g], v1, v2, m.variant, m.out))

VerifiedExpr3 ==
    /\ CanCallVerified
    /\ \E g \in Graphs, m \in Methods3 :
       \E v1 \in LinesOf(m.ins[1]), v2 \in LinesOf(m.ins[2]), v3 \in LinesOf(m.ins[3]) :
           Call(g, m.name, <<v1, v2, v3>>,
                evaluator_expr3(g, components[g], v1, v2, v3, m.variant, m.out))

NextVerified ==
    \/ VerifiedConstant
    \/ VerifiedSwitch
    \/ VerifiedExpr
    \/ VerifiedExpr2
    \/ VerifiedExpr3

SpecVerified == Init /\ [][NextVerified]_vars

(***************************************************************************)
(* Specification of one Evaluator: any sequence of get_input calls over a  *)
(* small set of wire addresses.                                            *)
(***************************************************************************)
Addrs == {LineInner(a \div 2, a % 2) : a \in 0..(NumAddrs - 1)}

GetInput ==
    \E a \in Addrs :
        LET r == get_input(eval_inputs, a) IN
        /\ eval_inputs' = r.inputs
        /\ eval_last' = [line |-> a, expr |-> r.expr, calls |-> 1]
        /\ UNCHANGED <<gvars, cvars>>

NextEval == GetInput

SpecEval == Init /\ [][NextEval]_vars

(***************************************************************************)
(* ftd_data.rs: Serializer.  A serializer is its byte vector.              *)
(***************************************************************************)
push_u8(data, n) == Append(data, n)

\* n.to_le_bytes() of a u16
push_u16(data, n) == data \o <<n % 256, (n \div 256) % 256>>

\* the 3 low bytes of n.to_le_bytes(), for n below 2^24 (what the assert lets through)
push_u24(data, n) == data \o <<n % 256, (n \div 256) % 256, (n \div 65536) % 256>>

\* mutant: the low half is written first
push_wierd_u32_low_first(data, n) ==
    push_u16(push_u16(data, n % 65536), (n \div 65536) % 65536)

\* (n >> 16) as u16, then n as u16
push_wierd_u32(data, n) ==
    push_u16(push_u16(data, (n \div 65536) % 65536), n % 65536)

\* the assert! of push_u24 holds
push_u24_assert(n) == n < U24_LIMIT

push_bytes(data, bytes) == data \o bytes

\* n.to_le_bytes() of a u32
u32_to_le_bytes(n) ==
    <<n % 256, (n \div 256) % 256, (n \div 65536) % 256, (n \div 16777216) % 256>>

\* n.to_le_bytes() of an i32: two's complement
i32_to_le_bytes(n) ==
    <<n % 256, (n \div 256) % 256, (n \div 65536) % 256, (n \div 16777216) % 256>>

\* n.to_le_bytes() of an i64 (the values drawn are within the i32 range: the
\* high half is the sign extension)
i64_to_le_bytes(n) ==
    LET ext == IF n < 0 THEN 255 ELSE 0 IN
    i32_to_le_bytes(n) \o <<ext, ext, ext, ext>>

RECURSIVE floor_log2(_)
\* the binary exponent of a positive integer
floor_log2(n) == IF n < 2 THEN 0 ELSE 1 + floor_log2(n \div 2)

\* n.to_le_bytes() of an f32 holding an integral value of magnitude below
\* 2^24, or NaN: sign bit, exponent biased by 127, 23 fraction bits
f32_to_le_bytes(n) ==
    IF is_nan(n) THEN <<0, 0, 192, 127>>
    ELSE IF n = 0 THEN <<0, 0, 0, 0>>
    ELSE LET a == IF n < 0 THEN -n ELSE n
             e == floor_log2(a)
             bits == (127 + e) * 8388608 + (a - 2^e) * 2^(23 - e)
             b == u32_to_le_bytes(bits)
         IN <<b[1], b[2], b[3], b[4] + (IF n < 0 THEN 128 ELSE 0)>>

\* n.to_le_bytes() of an f64 holding an integral value of magnitude below
\* 2^21, or NaN: sign bit, exponent biased by 1023, 52 fraction bits (the
\* low 32 of them zero for these values)
f64_to_le_bytes(n) ==
    IF is_nan(n) THEN <<0, 0, 0, 0, 0, 0, 248, 127>>
    ELSE IF n = 0 THEN <<0, 0, 0, 0, 0, 0, 0, 0>>
    ELSE LET a == IF n < 0 THEN -n ELSE n
             e == floor_log2(a)
             hi == (1023 + e) * 1048576 + (a - 2^e) * 2^(20 - e)
             b == u32_to_le_bytes(hi)
         IN <<0, 0, 0, 0, b[1], b[2], b[3], b[4] + (IF n < 0 THEN 128 ELSE 0)>>

\* mutant: the value is written with the width of an f64
push_f32_wide(data, n) == data \o f64_to_le_bytes(n)

push_f32(data, n) == data \o f32_to_le_bytes(n)

(***************************************************************************)
(* ftd_data.rs: DataEntry                                                  *)
(***************************************************************************)
RECURSIVE serialize_bytes_no_id(_, _, _)
\* mutant: the entry id is not written again before a later chunk
serialize_bytes_no_id(data, entry_id, serializer) ==
    LET write_amount == Min2(Len(data), CHUNK_MAX)
        s1 == push_bytes(push_u8(serializer, write_amount),
                         SubSeq(data, 1, write_amount))
        rest == SubSeq(data, write_amount + 1, Len(data))
    IN IF Len(rest) = 0 THEN s1
       ELSE serialize_bytes_no_id(rest, entry_id, s1)

RECURSIVE serialize_bytes(_, _, _)
\* the loop of DataEntry::serialize_bytes over the rest `data` of the value
serialize_bytes(data, entry_id, serializer) ==
    LET write_amount == Min2(Len(data), CHUNK_MAX)
        s1 == push_bytes(push_u8(serializer, write_amount),
                         SubSeq(data, 1, write_amount))
        rest == SubSeq(data, write_amount + 1, Len(data))
    IN IF Len(rest) = 0 THEN s1
       ELSE serialize_bytes(rest, entry_id, push_u16(s1, entry_id))

\* DataEntry::serialize_to; a Vector2 is the pair <<x, y>>
DataEntry_serialize_to(entry, entry_id, serializer) ==
    LET s0 == push_u16(serializer, entry_id) IN
    CASE entry.tag = "Bool" ->
           push_u8(push_u8(s0, 1), IF entry.val THEN 1 ELSE 0)
      [] entry.tag = "U32" ->
           push_bytes(push_u8(s0, 4), u32_to_le_bytes(entry.val))
      [] entry.tag = "I32" ->
           push_bytes(push_u8(s0, 4), i32_to_le_bytes(entry.val))
      [] entry.tag = "F32" ->
           push_f32(push_u8(s0, 4), entry.val)
      [] entry.tag = "I64" ->
           push_bytes(push_u8(s0, 8), i64_to_le_bytes(entry.val))
      [] entry.tag = "F64" ->
           push_bytes(push_u8(s0, 8), f64_to_le_bytes(entry.val))
      [] entry.tag = "Vector2" ->
           push_f32(push_f32(push_u8(s0, 8), entry.val[1]), entry.val[2])
      [] entry.tag = "Uuid" ->
           push_bytes(push_u8(s0, 16), entry.val)
      [] entry.tag \in {"Bytes", "String"} ->
           serialize_bytes(entry.val, entry_id, s0)

(***************************************************************************)
(* ftd_data.rs: BlueprintData::serialize, the body length words            *)
(***************************************************************************)
RECURSIVE push_body_length_gt(_, _)
\* mutant: the comparison with u16::MAX is strict
push_body_length_gt(serializer, body_length) ==
    IF body_length > U16_MAX
    THEN push_body_length_gt(push_u16(serializer, U16_MAX), body_length - U16_MAX)
    ELSE push_u16(serializer, body_length)

RECURSIVE push_body_length(_, _)
\* the `loop` that stores block_serialize_info.data_length
push_body_length(serializer, body_length) ==
    IF body_length >= U16_MAX
    THEN push_body_length(push_u16(serializer, U16_MAX), body_length - U16_MAX)
    ELSE push_u16(serializer, body_length)

(***************************************************************************)
(* ftd_data.rs: SectionData, BlockData, BlueprintData.  A container is the *)
(* function from its keys to its values.  HashMap::iter visits the keys in *)
(* an order the hasher's random state decides: a serialization is handed   *)
(* the order of every map it iterates.                                     *)
(***************************************************************************)
\* the orders HashMap::iter can visit the keys S in
Perms(S) ==
    {p \in [1..Cardinality(S) -> S] : \A i \in DOMAIN p : \A j \in DOMAIN p : i # j => p[i] # p[j]}

\* the iteration orders of a block: of its sections, and of the entries of
\* each section
BlockOrders(block) ==
    LET ids == DOMAIN block
        entry_perms == UNION {Perms(DOMAIN block[id]) : id \in ids}
    IN {[sections |-> ps, entries |-> pe] :
            ps \in Perms(ids),
            pe \in {f \in [ids -> entry_perms] :
                        \A id \in ids : f[id] \in Perms(DOMAIN block[id])}}

\* the iteration orders of a blueprint: of its blocks, and those of each block
BlueprintOrders(bp) ==
    LET idx == DOMAIN bp
        block_orders == UNION {BlockOrders(bp[b]) : b \in idx}
    IN {[blocks |-> pb, of |-> f] :
            pb \in Perms(idx),
            f \in {f \in [idx -> block_orders] :
                       \A b \in idx : f[b] \in BlockOrders(bp[b])}}

RECURSIVE SectionData_serialize_to(_, _, _, _)
\* the loop over self.entries.iter() from position i of the order on
SectionData_serialize_to(section, order, i, serializer) ==
    IF i > Len(order) THEN serializer
    ELSE SectionData_serialize_to(section, order, i + 1,
             DataEntry_serialize_to(section[order[i]], order[i], serializer))

RECURSIVE BlockData_sections_loop_after(_, _, _, _, _)
\* mutant: the offset is taken after the section is written to the body
BlockData_sections_loop_after(block, order, i, serializer, data_body) ==
    IF i > Len(order.sections)
    THEN [serializer |-> serializer, data_body |-> data_body]
    ELSE LET section_id == order.sections[i]
             body1 == SectionData_serialize_to(block[section_id],
                          order.entries[section_id], 1, data_body)
             section_start_offset == Len(body1)
         IN BlockData_sections_loop_after(block, order, i + 1,
                push_wierd_u32(push_u24(serializer, section_id), section_start_offset),
                body1)

RECURSIVE BlockData_sections_loop(_, _, _, _, _)
\* the loop over self.sections.iter() from position i of the order on
BlockData_sections_loop(block, order, i, serializer, data_body) ==
    IF i > Len(order.sections)
    THEN [serializer |-> serializer, data_body |-> data_body]
    ELSE LET section_id == order.sections[i]
             section_start_offset == Len(data_body)
             body1 == SectionData_serialize_to(block[section_id],
                          order.entries[section_id], 1, data_body)
         IN BlockData_sections_loop(block, order, i + 1,
                push_wierd_u32(push_u24(serializer, section_id), section_start_offset),
                body1)

\* BlockData::serialize_to: the serializer afterwards and the
\* BlockDataSerializeInfo
BlockData_serialize_to(block, order, serializer) ==
    LET r == BlockData_sections_loop(block, order, 1, serializer, <<>>) IN
    [serializer |-> push_bytes(r.serializer, r.data_body),
     header_len |-> 7 * Cardinality(DOMAIN block),
     data_length |-> Len(r.data_body)]

\* mutant: the block's bytes are pushed before its index and lengths
BlueprintData_push_block_first(serializer, block_index, info) ==
    push_body_length(
        push_u16(push_u16(push_u24(push_bytes(serializer, info.serializer), block_index),
                          info.header_len), 0),
        info.data_length)

\* the body of the loop of BlueprintData::serialize past serialize_to
BlueprintData_push_block(serializer, block_index, info) ==
    push_bytes(
        push_body_length(
            push_u16(push_u16(push_u24(serializer, block_index), info.header_len), 0),
            info.data_length),
        info.serializer)

RECURSIVE BlueprintData_serialize_loop(_, _, _, _)
\* the loop over self.data.iter() from position i of the order on;
\* header_len.try_into().unwrap() panics above u16::MAX
BlueprintData_serialize_loop(bp, order, i, serializer) ==
    IF i > Len(order.blocks) THEN [panic |-> FALSE, bytes |-> serializer]
    ELSE LET block_index == order.blocks[i]
             info == BlockData_serialize_to(bp[block_index], order.of[block_index], <<>>)
         IN IF info.header_len > U16_MAX THEN [panic |-> TRUE, bytes |-> serializer]
            ELSE BlueprintData_serialize_loop(bp, order, i + 1,
                     BlueprintData_push_block(serializer, block_index, info))

BlueprintData_serialize(bp, order) == BlueprintData_serialize_loop(bp, order, 1, <<>>)

(***************************************************************************)
(* Specification of the codec primitives: an input is drawn, the primitive *)
(* it is meant for is applied to it once.                                  *)
(***************************************************************************)
\* a byte string of length len; consecutive chunks of it differ
PatternBytes(len, seed, modulus) == [i \in 1..len |-> (seed + 7 * i) % modulus]

EntryIds == {0, 900}

BytesInputs ==
    {[kind |-> "entry", id |-> id,
      entry |-> DataEntry("Bytes", PatternBytes(len, 3, 251))] :
        id \in EntryIds, len \in 0..MaxBytesLen}
    \cup
    {[kind |-> "entry", id |-> id,
      entry |-> DataEntry("String", PatternBytes(len, 32, 95))] :
        id \in EntryIds, len \in 0..MaxBytesLen}

BodyLengths ==
    {b \in {k * U16_MAX + d : k \in 0..MaxBodyWords, d \in -3..20} : b >= 0}

BodyLengthInputs == {[kind |-> "body_length", n |-> b] : b \in BodyLengths}

Halves == {0, 1, 255, 256, 4660, 22136, 32767, 32768, 65280, 65534, 65535}

\* TLC's integers are 32-bit signed: the values drawn are below 2^31
U32Inputs ==
    {[kind |-> "u32", n |-> h * 65536 + l] : h \in {x \in Halves : x < 32768}, l \in Halves}

\* values handed to BlockIndex::new and SectionId::new, around 2^24
KeyValues ==
    {0, 1, 255, 256, 3000, 9999, 65535, 65536, 72541, 72542, 16777214,
     U24_LIMIT - 1, U24_LIMIT, U24_LIMIT + 1, U24_LIMIT + 255, 2 * U24_LIMIT}

KeyInputs == {[kind |-> "key", of |-> t, n |-> n] : t \in {"BlockIndex", "SectionId"}, n \in KeyValues}

\* scalar entries of every variant: values at zero, of either sign, at the
\* ends of the range, and NaN
ScalarEntries ==
    {DataEntry("Bool", v) : v \in {TRUE, FALSE}}
    \cup {DataEntry("U32", v) : v \in {0, 3, COMPONENT_ID_START, 2147483647}}
    \cup {DataEntry("I32", v) : v \in {-2147483647, -1, 0, 5}}
    \cup {DataEntry("F32", v) : v \in {-10000, -1, 0, 1, 25, 200, 10000, NaN}}
    \cup {DataEntry("I64", v) : v \in {-2147483647, -256, 0, 2147483647}}
    \cup {DataEntry("F64", v) : v \in {-10, 0, 1, 250, NaN}}
    \cup {DataEntry("Vector2", v) : v \in {<<-3, 7>>, <<0, 0>>, <<1, NaN>>}}
    \cup {DataEntry("Uuid", v) : v \in {new_v4(1), uuid(Component("Constant", <<>>, <<>>, <<>>))}}

ScalarIds == {0, 1, 900, 8003, U16_MAX}

ScalarInputs ==
    {[kind |-> "scalar", id |-> id, entry |-> e] : id \in ScalarIds, e \in ScalarEntries}

\* sections of scalar and chunked entries together
SectionMixed ==
    with_entry(with_entry(with_entry(with_entry(with_entry(EmptyMap,
        0, DataEntry("String", PatternBytes(300, 32, 95))),
        1, DataEntry("Bool", TRUE)),
        2, DataEntry("U32", COMPONENT_ID_START)),
        8000, DataEntry("F32", 200)),
        U16_MAX, DataEntry("I32", -1))
SectionWide ==
    with_entry(with_entry(with_entry(with_entry(with_entry(EmptyMap,
        0, DataEntry("Vector2", <<-3, 7>>)),
        3, DataEntry("I64", -256)),
        4, DataEntry("F64", 250)),
        900, DataEntry("Bytes", <<>>)),
        901, DataEntry("Uuid", new_v4(1)))

SectionInputs ==
    {[kind |-> "section", section |-> sec] : sec \in {SectionMixed, SectionWide}}

CodecInit ==
    /\ c_in \in BytesInputs \cup BodyLengthInputs \cup U32Inputs \cup KeyInputs
                \cup ScalarInputs \cup SectionInputs
    /\ c_out = [kind |-> "none"]

InitCodec == GraphIdle /\ EvalIdle /\ CodecInit

SerializeEntry ==
    /\ c_in.kind = "entry"
    /\ c_out.kind = "none"
    /\ c_out' = [kind |-> "entry",
                 bytes |-> DataEntry_serialize_to(c_in.entry, c_in.id, <<>>)]
    /\ UNCHANGED <<c_in, gvars, evars>>

PushBodyLength ==
    /\ c_in.kind = "body_length"
    /\ c_out.kind = "none"
    /\ c_out' = [kind |-> "body_length", bytes |-> push_body_length(<<>>, c_in.n)]
    /\ UNCHANGED <<c_in, gvars, evars>>

PushWierdU32 ==
    /\ c_in.kind = "u32"
    /\ c_out.kind = "none"
    /\ c_out' = [kind |-> "u32", bytes |-> push_wierd_u32(<<>>, c_in.n)]
    /\ UNCHANGED <<c_in, gvars, evars>>

\* BlockIndex::new(n) or SectionId::new(n), then the key written by push_u24
PushKey ==
    /\ c_in.kind = "key"
    /\ c_out.kind = "none"
    /\ LET constructed == IF c_in.of = "BlockIndex" THEN BlockIndex_ok(c_in.n)
                                                    ELSE SectionId_ok(c_in.n)
       IN c_out' = [kind |-> "key",
                    constructed |-> constructed,
                    panic |-> ~constructed \/ ~push_u24_assert(c_in.n),
                    bytes |-> IF constructed /\ push_u24_assert(c_in.n)
                              THEN push_u24(<<>>, c_in.n) ELSE <<>>]
    /\ UNCHANGED <<c_in, gvars, evars>>

\* DataEntry::serialize_to of the scalar entry drawn
SerializeScalar ==
    /\ c_in.kind = "scalar"
    /\ c_out.kind = "none"
    /\ c_out' = [kind |-> "scalar",
                 bytes |-> DataEntry_serialize_to(c_in.entry, c_in.id, <<>>)]
    /\ UNCHANGED <<c_in, gvars, evars>>

\* SectionData::serialize_to of the section drawn, its entries visited in
\* the order the map happens to have
SerializeSection ==
    /\ c_in.kind = "section"
    /\ c_out.kind = "none"
    /\ \E order \in Perms(DOMAIN c_in.section) :
        c_out' = [kind |-> "section", order |-> order,
                  bytes |-> SectionData_serialize_to(c_in.section, order, 1, <<>>)]
    /\ UNCHANGED <<c_in, gvars, evars>>

NextCodec ==
    \/ SerializeEntry
    \/ PushBodyLength
    \/ PushWierdU32
    \/ PushKey
    \/ SerializeScalar
    \/ SerializeSection

SpecCodec == InitCodec /\ [][NextCodec]_vars

(***************************************************************************)
(* Specification of the containers: a blueprint is drawn and serialized up *)
(* to MaxRuns times, each time with the iteration orders the maps happen   *)
(* to have.  The bytes of the first serialization and the whole of the     *)
(* latest one are kept.                                                    *)
(***************************************************************************)
\* sections as block_data makes them: empty, a main section, node sections
SectionEmpty == EmptyMap
SectionMain ==
    with_entry(with_entry(EmptyMap, 0, DataEntry("Uuid", new_v4(9))),
               1, DataEntry("U32", COMPONENT_ID_START))
SectionNode ==
    with_entry(with_entry(EmptyMap, 0, DataEntry("String", <<45, 40, 97, 41>>)),
               900, DataEntry("Bytes", new_v4(2) \o new_v4(1)))
SectionLong ==
    with_entry(with_entry(EmptyMap, 0, DataEntry("String", PatternBytes(300, 32, 95))),
               5, DataEntry("Bool", TRUE))

BlockNone == EmptyMap
BlockOne == with_entry(EmptyMap, 3000, SectionEmpty)
BlockTwo == with_entry(BlockOne, 9999, SectionMain)
BlockThree == with_entry(BlockTwo, COMPONENT_ID_START, SectionNode)
BlockLong == with_entry(with_entry(EmptyMap, 72541, SectionLong), 16777215, SectionNode)

Blueprints ==
    {EmptyMap} \cup
    {with_entry(EmptyMap, 0, b) :
        b \in {BlockNone, BlockOne, BlockTwo, BlockThree, BlockLong}}
    \cup
    {with_entry(with_entry(EmptyMap, 0, BlockTwo), 1, BlockOne),
     with_entry(with_entry(EmptyMap, 1, BlockOne), 300, BlockLong),
     with_entry(with_entry(EmptyMap, 0, BlockTwo), 16777215, BlockTwo)}

BlueprintInputs == {[kind |-> "blueprint", bp |-> bp] : bp \in Blueprints}

\* what BlockData::serialize_to gives for a block of one section whose body
\* is n bytes, n around the multiples of u16::MAX: 7 header bytes, the body
BlockInfoInputs ==
    {[kind |-> "block_info", index |-> 70000,
      info |-> [serializer |-> PatternBytes(7 + n, 3, 251), header_len |-> 7,
                data_length |-> n]] :
        n \in {k * U16_MAX + d : k \in 1..MaxBodyWords, d \in {-1, 0, 1}}}

NoRun == [order |-> <<>>, blocks |-> <<>>, panic |-> FALSE, bytes |-> <<>>]

InitContainer ==
    /\ GraphIdle
    /\ EvalIdle
    /\ c_in \in BlueprintInputs \cup BlockInfoInputs
    /\ c_out = IF c_in.kind = "blueprint"
               THEN [kind |-> "runs", count |-> 0, first |-> <<>>, last |-> NoRun]
               ELSE [kind |-> "none"]

\* BlueprintData::serialize of the blueprint drawn; the run kept is the
\* orders the maps were iterated in, what BlockData::serialize_to gave for
\* every block, and the bytes returned
Serialize ==
    /\ c_in.kind = "blueprint"
    /\ c_out.count < MaxRuns
    /\ \E order \in BlueprintOrders(c_in.bp) :
        LET r == BlueprintData_serialize(c_in.bp, order) IN
        c_out' = [kind |-> "runs",
                  count |-> c_out.count + 1,
                  first |-> IF c_out.count = 0 THEN r.bytes ELSE c_out.first,
                  last |-> [order |-> order,
                            blocks |-> [b \in DOMAIN c_in.bp |->
                                          BlockData_serialize_to(c_in.bp[b], order.of[b], <<>>)],
                            panic |-> r.panic,
                            bytes |-> r.bytes]]
    /\ UNCHANGED <<c_in, gvars, evars>>

\* one pass of the loop of BlueprintData::serialize, on an empty serializer,
\* for a block whose serialize_to result is the one drawn
PushBlock ==
    /\ c_in.kind = "block_info"
    /\ c_out.kind = "none"
    /\ c_out' = [kind |-> "block",
                 bytes |-> BlueprintData_push_block(<<>>, c_in.index, c_in.info)]
    /\ UNCHANGED <<c_in, gvars, evars>>

NextContainer ==
    \/ Serialize
    \/ PushBlock

SpecContainer == InitContainer /\ [][NextContainer]_vars

(***************************************************************************)
(* Specification of the sizes: save_to_prefab_file on a graph of thousands *)
(* of nodes.  The graph is N nodes alike, none with inputs; the loops over *)
(* the nodes are taken as quantifications over the node indices, and the   *)
(* lengths of the sections from the serialization of one node.             *)
(***************************************************************************)
\* mutant: the value is cast, not converted: nothing fails
try_into_u16_ok_cast(n) == TRUE

\* usize -> u16 try_into().unwrap() does not panic
try_into_u16_ok(n) == n <= U16_MAX

\* usize -> u32 try_into().unwrap() does not panic
try_into_u32_ok(n) == n \div 65536 <= U16_MAX

\* the entries of a section in ascending id order, one of the orders of its map
EntryOrder(section) ==
    SelectSeq(<<0, 1, 900, 901, 8000, 8001, 8002, 8003>>, LAMBDA e : e \in DOMAIN section)

\* the node kinds without inputs, each as its builder makes it
SizeNodeKinds ==
    {constant("X", <<>>, 5).components[1],
     random_number("X", <<>>, -3, 7).components[1],
     position("X", <<>>).components[1],
     target_info("X", <<>>).components[1],
     new_vector("X", <<>>, 1, 2, 3).components[1]}

\* the bytes SectionData::serialize_to writes for section id of the block
\* of the one-node graph <<node>>
SectionBytesOf(node, id) ==
    LET section == block_data(<<node>>, 0).data[id] IN
    SectionData_serialize_to(section, EntryOrder(section), 1, <<>>)

\* the section ids block_data inserts for N nodes
block_section_ids(N) ==
    {3000, 72541} \cup {COMPONENT_ID_START + i : i \in 0..(N - 1)} \cup {9999}

\* Breadboard::save_to_prefab_file up to the bytes of the block header: the
\* conversions of block_data, of BlockData::serialize_to and of
\* BlueprintData::serialize, for N nodes like `node`
save_to_prefab_file(N, node) ==
    LET ids_ok == \A i \in 0..(N - 1) :
                      try_into_u16_ok(2 * i) /\ try_into_u16_ok(2 * i + 1)
        sections == block_section_ids(N)
        keys_ok == \A id \in sections : SectionId_ok(id) /\ push_u24_assert(id)
        data_length == N * (Len(SectionBytesOf(node, 9999))
                              + Len(SectionBytesOf(node, COMPONENT_ID_START)))
        header_len == 7 * Cardinality(sections)
        block_panic == ~ids_ok \/ ~keys_ok
        offset_panic == ~try_into_u32_ok(data_length)
        header_panic == ~try_into_u16_ok(header_len)
    IN [panic |-> block_panic \/ offset_panic \/ header_panic,
        block_panic |-> block_panic,
        sections |-> IF block_panic THEN 0 ELSE Cardinality(sections),
        last_entry_id |-> IF block_panic \/ N = 0 THEN <<>>
                          ELSE push_u16(<<>>, 2 * (N - 1) + 1),
        header |-> IF block_panic \/ offset_panic \/ header_panic THEN <<>>
                   ELSE push_body_length(
                            push_u16(push_u16(push_u24(<<>>, 0), header_len), 0),
                            data_length)]

\* node counts around the limits of the 16-bit conversions
SizeNodes == (0..12) \cup (9350..9370) \cup (32760..32775)

SizeInputs ==
    {[kind |-> "size", nodes |-> N, node |-> node] : N \in SizeNodes, node \in SizeNodeKinds}

InitSize ==
    /\ GraphIdle
    /\ EvalIdle
    /\ c_in \in SizeInputs
    /\ c_out = [kind |-> "none"]

SaveToPrefabFile ==
    /\ c_in.kind = "size"
    /\ c_out.kind = "none"
    /\ c_out' = [kind |-> "saved", r |-> save_to_prefab_file(c_in.nodes, c_in.node)]
    /\ UNCHANGED <<c_in, gvars, evars>>

NextSize == SaveToPrefabFile

SpecSize == InitSize /\ [][NextSize]_vars

(***************************************************************************)
(* Specification of rendering: an expression node with 1..MaxExprs output  *)
(* expressions is drawn, each an operator of the enum over input slots (as *)
(* the builder methods make them) or the vector literal of new_vector, and *)
(* its section data is taken.                                              *)
(***************************************************************************)
\* the variants of EvaluatorExpression that have operands
Operators ==
    {"Sin", "Cos", "Tan", "Sqrt", "Asin", "Acos", "Atan", "Atan2", "Exp",
     "Log", "Pow", "Abs", "Sign", "Round", "Floor", "Ceil", "Max2", "Max3",
     "MaxV", "Min2", "Min3", "MinV", "If", "Vector", "MakeRotationBetween",
     "FromEuler", "FromEularV", "ToEularV", "Angle", "Axis", "AngleBetween",
     "SetX", "SetY", "SetZ", "OutputV", "Output", "GetX", "GetY", "GetZ",
     "Magnitude", "SquareMagnitude", "RotationInverse", "Add", "Sub",
     "Cross", "Mul", "Div", "Mod", "Eq", "Ne", "Gt", "Gte", "Lt", "Lte",
     "Not", "OpAnd", "OpOr", "FalseCoalesce", "Negate"}

\* the number of operands of a variant
Arity(op) == Len(fmt_template(op)) - 1

\* op over the first slots in order, and op over slot a alone
SlotExprs(op) ==
    {Expr(op, [k \in 1..Arity(op) |-> from_input_index(k - 1)], 0),
     Expr(op, [k \in 1..Arity(op) |-> from_input_index(0)], 0)}

RenderExprs ==
    UNION {SlotExprs(op) : op \in Operators}
    \cup {Expr("Vector", <<Expr("Float", <<>>, v[1]), Expr("Float", <<>>, v[2]),
                           Expr("Float", <<>>, v[3])>>, 0) : v \in {<<1, 2, 3>>, <<-10, 0, 250>>}}

RenderInputs ==
    {[kind |-> "evaluator", node |-> Component("Evaluator", <<>>, <<>>, exprs)] :
        exprs \in UNION {[1..n -> RenderExprs] : n \in 1..MaxExprs}}

InitRender ==
    /\ GraphIdle
    /\ EvalIdle
    /\ c_in \in RenderInputs
    /\ c_out = [kind |-> "none"]

\* Evaluator::section_data and Evaluator::num_outputs of the node drawn
Render ==
    /\ c_in.kind = "evaluator"
    /\ c_out.kind = "none"
    /\ c_out' = [kind |-> "section", section |-> section_data(c_in.node),
                 num_outputs |-> num_outputs(c_in.node)]
    /\ UNCHANGED <<c_in, gvars, evars>>

NextRender == Render

SpecRender == InitRender /\ [][NextRender]_vars

(***************************************************************************)
(* Properties.                                                             *)
(***************************************************************************)
IsPrefix(s, t) == Len(s) <= Len(t) /\ SubSeq(t, 1, Len(s)) = s

\* a serialization has completed without a panic
SerDone == ser.bb # "none" /\ ~ser.panic

\* node i (0-based) of the graph last serialized, and its section
SerNode(i) == components[ser.bb][i + 1]
SerSection(i) == ser.data[COMPONENT_ID_START + i]

\* C1: a builder call on one graph that is handed a wire handle returned by
\* a call on another graph fails fatally (and so appends no node).
C1_CrossGraphCallFails ==
    (\E k \in DOMAIN last.args : last.args[k].breadboard # last.bb) => last.panic

\* C2: every address (m, k) in the input list of the node at index i of a
\* graph has m < i.
C2_InputsReferenceEarlierNodes ==
    \A g \in Graphs : \A i \in 0..(Len(components[g]) - 1) :
        \A j \in DOMAIN inputs(components[g][i + 1]) :
            inputs(components[g][i + 1])[j].component_index < i

\* C3: every step keeps each node list as a prefix of the new one (nothing is
\* removed, reordered or changed); a successful builder call grows the node
\* list of its graph by exactly one, leaves the other graph alone, and
\* returns at least one handle, each with the node index equal to the list
\* length before the call; a step that is no builder call changes no node.
C3_AppendExactlyOne ==
    [][/\ \A g \in Graphs : IsPrefix(components[g], components'[g])
       /\ (last' # last /\ ~last'.panic) =>
            /\ Len(components'[last'.bb]) = Len(components[last'.bb]) + 1
            /\ \A g \in Graphs \ {last'.bb} : components'[g] = components[g]
            /\ last'.ret # <<>>
            /\ \A k \in DOMAIN last'.ret :
                /\ last'.ret[k].breadboard = last'.bb
                /\ last'.ret[k].inner.component_index = Len(components[last'.bb])
       /\ (last' = last) => components' = components]_vars

C3_Witness ==
    /\ last.call = "target_info"
    /\ ~last.panic
    /\ Len(last.ret) = 7
    /\ Len(components[last.bb]) = 2

SlotNames == <<"InputA", "InputB", "InputC", "InputD", "InputE">>

\* C4: get_input with an address already in the input list returns the slot
\* of its position and leaves the list unchanged; with a new address and
\* fewer than 5 stored it appends the address and returns the next slot;
\* with a new address and 5 stored it returns None and leaves the 5 entries.
C4_GetInputSlots ==
    [][(eval_last' # eval_last \/ eval_inputs' # eval_inputs) =>
        LET a == eval_last'.line IN
        IF \E i \in DOMAIN eval_inputs : eval_inputs[i] = a
        THEN /\ eval_inputs' = eval_inputs
             /\ \E i \in DOMAIN eval_inputs :
                    eval_inputs[i] = a /\ eval_last'.expr.op = SlotNames[i]
        ELSE IF Len(eval_inputs) < 5
        THEN /\ eval_inputs' = Append(eval_inputs, a)
             /\ eval_last'.expr.op = SlotNames[Len(eval_inputs) + 1]
        ELSE /\ eval_last'.expr = None
             /\ eval_inputs' = eval_inputs
             /\ Len(eval_inputs') = 5]_vars

C4_Witness ==
    /\ Len(eval_inputs) = 5
    /\ eval_last.calls = 1
    /\ eval_last.expr = None
    /\ \A i \in DOMAIN eval_inputs : eval_inputs[i] # eval_last.line

\* C5: in a completed serialization, entry 900 of node i holds 32 bytes per
\* input and entry 901 holds 16 bytes per declared output; for the input at
\* position j with address (m, k), bytes [32j+16, 32j+32) of entry 900 are
\* bytes [16k, 16k+16) of entry 901 of node m's section.
C5_InputDescriptorsResolve ==
    SerDone =>
        \A i \in 0..(ser.nodes - 1) :
            LET ins == inputs(SerNode(i))
                e900 == SerSection(i)[900]
                e901 == SerSection(i)[901]
            IN /\ e900.tag = "Bytes" /\ e901.tag = "Bytes"
               /\ Len(e900.val) = 32 * Len(ins)
               /\ Len(e901.val) = 16 * num_outputs(SerNode(i))
               /\ \A j \in 0..(Len(ins) - 1) :
                    LET m == ins[j + 1].component_index
                        k == ins[j + 1].output_index
                    IN /\ m < ser.nodes
                       /\ 16 * k + 16 <= Len(SerSection(m)[901].val)
                       /\ SubSeq(e900.val, 32 * j + 17, 32 * j + 32)
                            = SubSeq(SerSection(m)[901].val, 16 * k + 1, 16 * k + 16)

C5_Witness ==
    /\ SerDone
    /\ ser.nodes = 2
    /\ \E j \in DOMAIN inputs(SerNode(1)) :
        /\ inputs(SerNode(1))[j].component_index = 0
        /\ inputs(SerNode(1))[j].output_index = 6

\* the identifiers of a completed serialization, by what they were minted for
SerKeys ==
    {<<"output", i, k>> : i \in 0..(ser.nodes - 1), k \in 0..(TARGET_INFO_OUTPUTS - 1)}
    \cup {<<"input", i, j>> : i \in 0..(ser.nodes - 1), j \in 0..4}

SerKeyPresent(key) ==
    IF key[1] = "output"
    THEN 16 * key[3] < Len(SerSection(key[2])[901].val)
    ELSE 32 * key[3] < Len(SerSection(key[2])[900].val)

SerIdOf(key) ==
    IF key[1] = "output"
    THEN SubSeq(SerSection(key[2])[901].val, 16 * key[3] + 1, 16 * key[3] + 16)
    ELSE SubSeq(SerSection(key[2])[900].val, 32 * key[3] + 1, 32 * key[3] + 16)

\* C6: a completed serialization draws exactly one identifier per (node,
\* output) pair and one per input descriptor, and the identifiers written
\* for distinct outputs and descriptors are pairwise distinct.
C6_IdentifiersFresh ==
    SerDone =>
        LET keys == {key \in SerKeys : SerKeyPresent(key)} IN
        /\ \A i \in 0..(ser.nodes - 1) :
            /\ Len(SerSection(i)[901].val) = 16 * num_outputs(SerNode(i))
            /\ Len(SerSection(i)[900].val) = 32 * Len(inputs(SerNode(i)))
        /\ ser.draws = Cardinality(keys)
        /\ \A a \in keys : \A b \in keys : a # b => SerIdOf(a) # SerIdOf(b)

C6_Witness ==
    /\ SerDone
    /\ ser.nodes = 2
    /\ Len(inputs(SerNode(1))) = 2
    /\ num_outputs(SerNode(0)) = 7

RECURSIVE ParseChunks(_, _)
\* the chunks [2-byte id][1-byte length n][n bytes] read from position p on;
\* a chunk that runs past the end is reported with id -1
ParseChunks(bytes, p) ==
    IF p > Len(bytes) THEN <<>>
    ELSE IF p + 2 > Len(bytes) \/ p + 2 + bytes[p + 2] > Len(bytes)
    THEN <<[id |-> -1, payload |-> <<>>]>>
    ELSE <<[id |-> bytes[p] + 256 * bytes[p + 1],
            payload |-> SubSeq(bytes, p + 3, p + 2 + bytes[p + 2])]>>
         \o ParseChunks(bytes, p + 3 + bytes[p + 2])

RECURSIVE ConcatPayloads(_, _)
ConcatPayloads(chunks, i) ==
    IF i > Len(chunks) THEN <<>>
    ELSE chunks[i].payload \o ConcatPayloads(chunks, i + 1)

\* C7: a Bytes or String entry of L bytes with id E is written as exactly
\* max(1, ceil(L / 255)) chunks, each with id E and at most 255 payload
\* bytes, whose payloads concatenated are the value; for L = 0 the one
\* chunk is empty.
C7_ChunkedBytes ==
    (c_out.kind = "entry") =>
        LET value == c_in.entry.val
            chunks == ParseChunks(c_out.bytes, 1)
        IN /\ Len(chunks) = IF Len(value) = 0 THEN 1 ELSE (Len(value) + 254) \div 255
           /\ \A i \in DOMAIN chunks :
                chunks[i].id = c_in.id /\ Len(chunks[i].payload) <= 255
           /\ ConcatPayloads(chunks, 1) = value
           /\ Len(value) = 0 => chunks = <<[id |-> c_in.id, payload |-> <<>>]>>

C7_Witness ==
    /\ c_out.kind = "entry"
    /\ c_in.entry.tag = "String"
    /\ Len(c_in.entry.val) = 511

\* the 16-bit little-endian words of a byte string of even length
Words(bytes) == [i \in 1..(Len(bytes) \div 2) |-> bytes[2 * i - 1] + 256 * bytes[2 * i]]

RECURSIVE SumSeq(_, _)
SumSeq(s, i) == IF i > Len(s) THEN 0 ELSE s[i] + SumSeq(s, i + 1)

\* C8: a body length B is written as floor(B / 65535) + 1 words, every word
\* but the last 65535, the last below 65535 (0 when B is a positive
\* multiple of 65535), the words summing to B.
C8_BodyLengthWords ==
    (c_out.kind = "body_length") =>
        LET words == Words(c_out.bytes) IN
        /\ Len(c_out.bytes) = 2 * Len(words)
        /\ Len(words) = (c_in.n \div 65535) + 1
        /\ \A i \in 1..(Len(words) - 1) : words[i] = 65535
        /\ words[Len(words)] < 65535
        /\ (c_in.n > 0 /\ c_in.n % 65535 = 0) => words[Len(words)] = 0
        /\ SumSeq(words, 1) = c_in.n

C8_Witness ==
    /\ c_out.kind = "body_length"
    /\ c_in.n = 131070
    /\ Len(c_out.bytes) = 6

\* C9: a 32-bit n is written as 4 bytes, the high 16 bits little-endian and
\* then the low 16 bits little-endian; 0x12345678 gives 34 12 78 56; and
\* (b1*256 + b0)*65536 + (b3*256 + b2) is n.
C9_WordSwappedU32 ==
    (c_out.kind = "u32") =>
        LET b == c_out.bytes
            hi == c_in.n \div 65536
            lo == c_in.n % 65536
        IN /\ b = <<hi % 256, hi \div 256, lo % 256, lo \div 256>>
           /\ (c_in.n = 305419896) => b = <<52, 18, 120, 86>>
           /\ (b[2] * 256 + b[1]) * 65536 + (b[4] * 256 + b[3]) = c_in.n

C9_Witness ==
    /\ c_out.kind = "u32"
    /\ c_in.n = 305419896

\* one application of the notation change, as the byte exchanges 0<->3,
\* 1<->2, 4<->5, 6<->7
Exchanged(u) ==
    [j \in 1..16 |-> u[<<4, 3, 2, 1, 6, 5, 8, 7, 9, 10, 11, 12, 13, 14, 15, 16>>[j]]]

\* C10: ftd_uuid_to_uuid applied twice gives the identifier back; applied
\* once it exchanges bytes 0 and 3, 1 and 2, 4 and 5, 6 and 7 and keeps
\* bytes 8..15; the type identifier in the main section of a serialization
\* is the node's catalog identifier after one application.
C10_UuidNotation ==
    /\ \A g \in Graphs : \A i \in 1..Len(components[g]) :
        \A u \in {ftd_uuid(components[g][i]), uuid(components[g][i])} :
            /\ ftd_uuid_to_uuid(ftd_uuid_to_uuid(u)) = u
            /\ ftd_uuid_to_uuid(u) = Exchanged(u)
    /\ \A n \in 1..minted :
        /\ ftd_uuid_to_uuid(ftd_uuid_to_uuid(new_v4(n))) = new_v4(n)
        /\ ftd_uuid_to_uuid(new_v4(n)) = Exchanged(new_v4(n))
    /\ SerDone =>
        \A i \in 0..(ser.nodes - 1) :
            ser.data[9999][2 * i] = DataEntry("Uuid", Exchanged(ftd_uuid(SerNode(i))))

C10_Witness ==
    /\ SerDone
    /\ ser.nodes = 2
    /\ SerNode(0).kind # SerNode(1).kind
    /\ minted > 2

\* C11: BlockIndex::new(n) and SectionId::new(n) succeed exactly when
\* n < 2^24 and panic otherwise; a key that was constructed is below 2^24,
\* is written without a panic as 3 bytes, and b0 + 256*b1 + 65536*b2 is the
\* key (no bit is lost).
C11_KeysFitThreeBytes ==
    (c_out.kind = "key") =>
        /\ c_out.constructed <=> (c_in.n < 16777216)
        /\ c_out.panic <=> ~c_out.constructed
        /\ c_out.constructed =>
            /\ Len(c_out.bytes) = 3
            /\ \A i \in 1..3 : c_out.bytes[i] \in 0..255
            /\ c_out.bytes[1] + 256 * c_out.bytes[2] + 65536 * c_out.bytes[3] = c_in.n
            /\ c_out.bytes = <<c_in.n % 256, (c_in.n \div 256) % 256, c_in.n \div 65536>>

C11_Witness ==
    /\ c_out.kind = "key"
    /\ c_in.of = "SectionId"
    /\ c_in.n = 16777215
    /\ c_out.bytes = <<255, 255, 255>>

\* the nearest value of [lo, hi] to the number n; NaN has none and is read
\* as staying NaN
Nearest(n, lo, hi) ==
    IF is_nan(n) THEN NaN ELSE IF n < lo THEN lo ELSE IF n > hi THEN hi ELSE n

\* the node a successful call appended
LastNode == components[last.bb][Len(components[last.bb])]

\* C12: constant, random_number, multiply and switch never reject a scalar
\* parameter: the call returns, and the node stores each parameter moved to
\* the nearest bound: constant in [-10000, 10000], switch threshold and
\* open value in [-10000, 10000], the multiplier in [-100, 100],
\* random_number min in [-10000, 10000] and max in [stored min, 10000], so
\* that stored min <= stored max.
C12_ClampedNeverRejected ==
    (last.call \in {"constant", "random_number", "multiply", "switch"}) =>
        /\ ~last.panic
        /\ last.call = "constant" =>
                LastNode.params = <<Nearest(last.scalars[1], -10000, 10000)>>
        /\ last.call = "multiply" =>
                LastNode.params = <<Nearest(last.scalars[1], -100, 100)>>
        /\ last.call = "switch" =>
                LastNode.params = <<Nearest(last.scalars[1], -10000, 10000),
                                    Nearest(last.scalars[2], -10000, 10000)>>
        /\ last.call = "random_number" =>
                /\ LastNode.params[1] = Nearest(last.scalars[1], -10000, 10000)
                /\ LastNode.params[2] = Nearest(last.scalars[2], LastNode.params[1], 10000)
                /\ f32_le(LastNode.params[1], LastNode.params[2])

\* the graph last serialized was built by constant(5.0) and then negate over
\* the wire that call returned, and the serialization completed
NegateOfConstant ==
    /\ SerDone
    /\ ser.nodes = 2
    /\ Len(components[ser.bb]) = 2
    /\ SerNode(0).kind = "Constant"
    /\ SerNode(0).params = <<5>>
    /\ last.call = "negate"
    /\ last.bb = ser.bb
    /\ last.args = <<Line(ser.bb, 0, 0, "BNumber")>>

\* C13: serializing constant(5.0) followed by negate over its wire gives
\* exactly the node sections 72542 and 72543; entry 0 of the expression
\* node is the text "-(a)"; its entry 900 holds one descriptor (32 bytes),
\* whose source identifier is the one identifier (16 bytes) of entry 901 of
\* the constant node.
C13_NegateOfConstant ==
    NegateOfConstant =>
        /\ {id \in DOMAIN ser.data : id >= 72542} = {72542, 72543}
        /\ ser.data[72543][0] = [tag |-> "String", val |-> <<45, 40, 97, 41>>]
        /\ ser.data[72543][900].tag = "Bytes"
        /\ Len(ser.data[72543][900].val) = 32
        /\ ser.data[72542][901].tag = "Bytes"
        /\ Len(ser.data[72542][901].val) = 16
        /\ SubSeq(ser.data[72543][900].val, 17, 32) = ser.data[72542][901].val
        /\ ser.data[72542][900].val = <<>>

C13_Witness ==
    /\ NegateOfConstant
    /\ ser.data[72543][0].val = <<45, 40, 97, 41>>

\* C14: the emission order is a function of the container's contents: two
\* serializations of one blueprint (the same keys and values) give the same
\* byte sequence.
C14_EmissionDeterministic ==
    (c_out.kind = "runs" /\ c_out.count >= 1) => c_out.last.bytes = c_out.first

RECURSIVE JoinComma(_, _)
\* the texts of the sequence from i on, a comma between neighbours
JoinComma(texts, i) ==
    IF i > Len(texts) THEN <<>>
    ELSE IF i = Len(texts) THEN texts[i]
    ELSE texts[i] \o <<44>> \o JoinComma(texts, i + 1)

RECURSIVE ParenDepth(_, _, _)
\* the number of '(' still open after the text from position i on, having d
\* open before it; -1 once a ')' closes nothing
ParenDepth(text, i, d) ==
    IF d < 0 THEN -1
    ELSE IF i > Len(text) THEN d
    ELSE ParenDepth(text, i + 1,
             IF text[i] = 40 THEN d + 1 ELSE IF text[i] = 41 THEN d - 1 ELSE d)

\* C15: the text entry of an expression node is the renderings of its
\* output expressions joined by single commas, one per declared output; the
\* rendering of every operator has as many '(' as ')' and no prefix with
\* more ')' than '('.
C15_RenderingParenthesized ==
    (c_out.kind = "section") =>
        LET exprs == c_in.node.exprs IN
        /\ c_out.num_outputs = Len(exprs)
        /\ c_out.section[0] =
              [tag |-> "String", val |-> JoinComma([i \in DOMAIN exprs |-> fmt(exprs[i])], 1)]
        /\ \A i \in DOMAIN exprs : ParenDepth(fmt(exprs[i]), 1, 0) = 0
        /\ ParenDepth(c_out.section[0].val, 1, 0) = 0

RECURSIVE SumLen(_, _)
\* the total length of the first k byte strings of the sequence
SumLen(bodies, k) == IF k = 0 THEN 0 ELSE SumLen(bodies, k - 1) + Len(bodies[k])

\* C16: for every block and every order its sections are emitted in, the
\* serialized block is one 7-byte header per section (3-byte little-endian
\* section id, 4-byte word-swapped offset) followed by the section bodies
\* in the same order; the offset of a section is the total length of the
\* bodies emitted before it, the position in the data body where its
\* first entry starts; the header length reported is 7 times the section
\* count and the data length reported is the sum of the body lengths.
C16_BlockLayout ==
    (c_out.kind = "runs" /\ c_out.count >= 1) =>
        \A b \in DOMAIN c_in.bp :
            LET block == c_in.bp[b]
                ord == c_out.last.order.of[b]
                out == c_out.last.blocks[b]
                bytes == out.serializer
                n == Cardinality(DOMAIN block)
                bodies == [i \in 1..n |->
                             SectionData_serialize_to(block[ord.sections[i]],
                                 ord.entries[ord.sections[i]], 1, <<>>)]
            IN /\ Len(ord.sections) = n
               /\ out.header_len = 7 * n
               /\ out.data_length = SumLen(bodies, n)
               /\ Len(bytes) = 7 * n + SumLen(bodies, n)
               /\ \A i \in 1..n :
                    LET h == SubSeq(bytes, 7 * (i - 1) + 1, 7 * i)
                        offset == SumLen(bodies, i - 1)
                        start == 7 * n + offset
                    IN /\ h[1] + 256 * h[2] + 65536 * h[3] = ord.sections[i]
                       /\ (h[5] * 256 + h[4]) * 65536 + (h[7] * 256 + h[6]) = offset
                       /\ SubSeq(bytes, start + 1, start + Len(bodies[i])) = bodies[i]
                       /\ bodies[i] # <<>> =>
                            bytes[start + 1] + 256 * bytes[start + 2]
                                = ord.entries[ord.sections[i]][1]

C16_Witness ==
    /\ c_out.kind = "runs"
    /\ c_in.bp = with_entry(EmptyMap, 0, BlockThree)
    /\ c_out.count = 1
    /\ c_out.last.order.of[0].sections = <<72542, 3000, 9999>>
    /\ c_out.last.order.of[0].entries[72542] = <<900, 0>>
    /\ c_out.last.blocks[0].data_length > 0

RECURSIVE ReadWords(_, _)
\* the little-endian 16-bit words from position p on, up to and including
\* the first one below 65535; shorter when the bytes run out
ReadWords(bytes, p) ==
    IF p + 1 > Len(bytes) THEN <<>>
    ELSE LET w == bytes[p] + 256 * bytes[p + 1] IN
         IF w < 65535 THEN <<w>> ELSE <<w>> \o ReadWords(bytes, p + 2)

NoBlock == [index |-> -1, header_len |-> 0, reserved |-> <<>>, words |-> <<>>, block |-> <<>>]

RECURSIVE ParseBlocks(_, _)
\* the blocks read from position p on: 3-byte index, 2-byte header length,
\* 2 reserved bytes, the length words, then header length + decoded body
\* length bytes; NoBlock where the bytes do not have that shape
ParseBlocks(bytes, p) ==
    IF p > Len(bytes) THEN <<>>
    ELSE IF p + 6 > Len(bytes) THEN <<NoBlock>>
    ELSE LET words == ReadWords(bytes, p + 7)
             header_len == bytes[p + 3] + 256 * bytes[p + 4]
             q == p + 7 + 2 * Len(words)
             size == header_len + SumSeq(words, 1)
         IN IF words = <<>> \/ words[Len(words)] = 65535 \/ q + size - 1 > Len(bytes)
            THEN <<NoBlock>>
            ELSE <<[index |-> bytes[p] + 256 * bytes[p + 1] + 65536 * bytes[p + 2],
                    header_len |-> header_len,
                    reserved |-> SubSeq(bytes, p + 5, p + 6),
                    words |-> words,
                    block |-> SubSeq(bytes, q, q + size - 1)]>>
                 \o ParseBlocks(bytes, q + size)

\* C17: the blueprint's bytes are, for every block in the order the blocks
\* are emitted: the 3-byte block index, the 2-byte little-endian header
\* length, 2 zero bytes, the body-length words, then the block's serialized
\* bytes; the bytes after the length words are header length + decoded body
\* length many, and nothing else is written.
C17_BlueprintLayout ==
    /\ (c_out.kind = "block") =>
        LET parsed == ParseBlocks(c_out.bytes, 1) IN
        /\ Len(parsed) = 1
        /\ parsed[1].index = c_in.index
        /\ parsed[1].header_len = c_in.info.header_len
        /\ parsed[1].reserved = <<0, 0>>
        /\ Len(parsed[1].words) = (c_in.info.data_length \div 65535) + 1
        /\ \A k \in 1..(Len(parsed[1].words) - 1) : parsed[1].words[k] = 65535
        /\ SumSeq(parsed[1].words, 1) = c_in.info.data_length
        /\ parsed[1].block = c_in.info.serializer
        /\ Len(c_out.bytes) = 7 + 2 * Len(parsed[1].words) + Len(c_in.info.serializer)
    /\ (c_out.kind = "runs" /\ c_out.count >= 1) =>
            LET run == c_out.last
                parsed == ParseBlocks(run.bytes, 1)
            IN /\ ~run.panic
               /\ Len(parsed) = Cardinality(DOMAIN c_in.bp)
               /\ Len(run.order.blocks) = Len(parsed)
               /\ \A i \in DOMAIN parsed :
                    LET b == run.order.blocks[i]
                        out == run.blocks[b]
                    IN /\ parsed[i].index = b
                       /\ parsed[i].header_len = out.header_len
                       /\ parsed[i].header_len = 7 * Cardinality(DOMAIN c_in.bp[b])
                       /\ parsed[i].reserved = <<0, 0>>
                       /\ SumSeq(parsed[i].words, 1) = out.data_length
                       /\ \A k \in 1..(Len(parsed[i].words) - 1) : parsed[i].words[k] = 65535
                       /\ parsed[i].block = out.serializer
                       /\ Len(parsed[i].block) = parsed[i].header_len + SumSeq(parsed[i].words, 1)

C17_Witness ==
    /\ c_out.kind = "runs"
    /\ c_in.bp = with_entry(with_entry(EmptyMap, 1, BlockOne), 300, BlockLong)
    /\ c_out.count = 1
    /\ c_out.last.order.blocks = <<300, 1>>
    /\ ~c_out.last.panic
    /\ Len(c_out.last.bytes) > 300

\* C18: a builder call that fails fatally leaves every node list as it was
\* before the call.
C18_FailedCallAppendsNothing ==
    [][(last' # last /\ last'.panic) => components' = components]_vars

C18_Witness ==
    /\ last.panic
    /\ last.call = "switch"
    /\ Len(components[last.bb]) = 1
    /\ last.args[1].breadboard = last.bb
    /\ last.args[2].breadboard # last.bb

\* the identifiers written in entries 900 and 901 of the node sections
AllIds(data, nodes) ==
    {SubSeq(data[COMPONENT_ID_START + i][e].val, 16 * k + 1, 16 * k + 16) :
        <<i, e, k>> \in {t \in (0..(nodes - 1)) \X {900, 901} \X (0..9) :
            16 * t[3] + 16 <= Len(data[COMPONENT_ID_START + t[1]][t[2]].val)}}

\* in the block `data` of graph g, the descriptor j of node i carries the
\* identifier of output k of node m, (m, k) the address in the node's inputs
DescriptorsResolve(data, g) ==
    \A i \in 0..(Len(components[g]) - 1) :
        LET ins == inputs(components[g][i + 1]) IN
        \A j \in 0..(Len(ins) - 1) :
            SubSeq(data[COMPONENT_ID_START + i][900].val, 32 * j + 17, 32 * j + 32)
                = SubSeq(data[COMPONENT_ID_START + ins[j + 1].component_index][901].val,
                         16 * ins[j + 1].output_index + 1,
                         16 * ins[j + 1].output_index + 16)

\* C19: a serialization changes no node list, wire or call record; when it
\* follows a completed serialization of the same graph with the same
\* nodes, it draws as many identifiers, all of them new, and its block has
\* the same section ids, the same entry ids, equal entries other than 900
\* and 901, entries 900 and 901 of equal length, and in both blocks every
\* input descriptor carries the identifier of the (node, output) it refers
\* to.
C19_SerializationKeepsNothing ==
    [][(ser' # ser) =>
        /\ components' = components
        /\ lines' = lines
        /\ last' = last
        /\ (SerDone /\ ~ser'.panic /\ ser'.bb = ser.bb /\ ser'.nodes = ser.nodes) =>
            /\ ser'.draws = ser.draws
            /\ AllIds(ser'.data, ser'.nodes) \cap AllIds(ser.data, ser.nodes) = {}
            /\ Cardinality(AllIds(ser'.data, ser'.nodes)) = ser'.draws
            /\ DOMAIN ser'.data = DOMAIN ser.data
            /\ \A id \in DOMAIN ser.data :
                /\ DOMAIN ser'.data[id] = DOMAIN ser.data[id]
                /\ \A e \in DOMAIN ser.data[id] :
                    IF id >= COMPONENT_ID_START /\ e \in {900, 901}
                    THEN /\ ser'.data[id][e].tag = ser.data[id][e].tag
                         /\ Len(ser'.data[id][e].val) = Len(ser.data[id][e].val)
                    ELSE ser'.data[id][e] = ser.data[id][e]
            /\ DescriptorsResolve(ser.data, ser.bb)
            /\ DescriptorsResolve(ser'.data, ser.bb)]_vars

C19_Witness ==
    /\ SerDone
    /\ ser.nodes = 2
    /\ Len(inputs(SerNode(1))) > 0
    /\ ser.draws > 0
    /\ minted = 2 * ser.draws
    /\ \A g \in Graphs \ {ser.bb} : components[g] = <<>>

\* some input address (m, k) of some node i of the graph last serialized
\* has no identifier to resolve to: m >= i, or m is no node, or node m has
\* no output k
SerBadAddress ==
    \E i \in 0..(ser.nodes - 1) :
        \E j \in DOMAIN inputs(SerNode(i)) :
            LET m == inputs(SerNode(i))[j].component_index
                k == inputs(SerNode(i))[j].output_index
            IN \/ m >= i
               \/ m >= ser.nodes
               \/ k >= num_outputs(SerNode(m))

\* C20: a serialization of a graph with an input address (m, k) of node i
\* where m >= i, m >= the number of nodes or k >= the output count of node
\* m fails fatally and produces no block; a serialization of a graph
\* without such an address completes.
C20_BadAddressFails ==
    (ser.bb # "none") =>
        /\ SerBadAddress => (ser.panic /\ ser.data = EmptyMap)
        /\ ~SerBadAddress => ~ser.panic

\* the names of the expression builders drawn
ExprCalls == {m.name : m \in Methods1 \cup Methods2 \cup Methods3}

RECURSIVE FirstSeen(_, _, _)
\* the distinct elements of s from position k on that are not in acc, appended
\* to acc in the order they are first met
FirstSeen(s, k, acc) ==
    IF k > Len(s) THEN acc
    ELSE IF \E i \in DOMAIN acc : acc[i] = s[k] THEN FirstSeen(s, k + 1, acc)
    ELSE FirstSeen(s, k + 1, Append(acc, s[k]))

\* the letters a..e, by position in the input list
SlotLetters == <<97, 98, 99, 100, 101>>

RECURSIVE FillSlots(_, _, _, _)
\* template t with the letter of each address of addrs from operand k on,
\* the letter being that of the position of the address in ins
FillSlots(t, addrs, ins, k) ==
    IF k > Len(addrs) THEN <<>>
    ELSE <<SlotLetters[FirstIndex(ins, addrs[k])]>> \o t[k + 1]
            \o FillSlots(t, addrs, ins, k + 1)

\* the node appended by the last builder call
LastAppended == components[last.bb][Len(components[last.bb])]

\* C21: the node built by a 1-, 2- or 3-input operator holds in its input
\* list the distinct argument addresses in first-seen argument order, 1 to 3
\* of them and none twice; its text names each argument by the letter of
\* the position of its address in the input list; when the graph is then
\* serialized, descriptor k of entry 900 carries the identifier of the
\* output at position k of the input list.  new_vector builds an expression
\* node with an empty input list and one output.
C21_ExpressionInputs ==
    /\ (last.call \in ExprCalls /\ ~last.panic) =>
        LET node == LastAppended
            addrs == as_vec(last.args)
            ins == inputs(node)
            t == fmt_template(node.exprs[1].op)
        IN /\ node.kind = "Evaluator"
           /\ ins = FirstSeen(addrs, 1, <<>>)
           /\ Len(ins) >= 1 /\ Len(ins) <= 3 /\ Len(ins) <= 5
           /\ \A a \in DOMAIN ins : \A b \in DOMAIN ins : a # b => ins[a] # ins[b]
           /\ Len(node.exprs) = 1
           /\ section_data(node)[0].val = t[1] \o FillSlots(t, addrs, ins, 1)
           /\ (SerDone /\ ser.bb = last.bb /\ ser.nodes = Len(components[last.bb])) =>
                \A k \in DOMAIN ins :
                    SubSeq(SerSection(ser.nodes - 1)[900].val, 32 * k - 15, 32 * k)
                        = SubSeq(SerSection(ins[k].component_index)[901].val,
                                 16 * ins[k].output_index + 1,
                                 16 * ins[k].output_index + 16)
    /\ (last.call = "new_vector" /\ ~last.panic) =>
        /\ LastAppended.kind = "Evaluator"
        /\ inputs(LastAppended) = <<>>
        /\ num_outputs(LastAppended) = 1

C21_Witness ==
    /\ last.call = "max3"
    /\ ~last.panic
    /\ last.args[1] = last.args[3]
    /\ last.args[1] # last.args[2]
    /\ SerDone
    /\ ser.bb = last.bb
    /\ ser.nodes = 2

\* C22: every handle returned so far has a node index below the node count
\* of its graph and an output index below the output count of that node; a
\* successful target_info returns seven handles with the output indices
\* 0..6 and one node index, of a node declaring 7 outputs; every other
\* successful builder call returns one handle with output index 0 of a node
\* declaring 1 output.
C22_HandlesInRange ==
    /\ \A l \in lines :
        /\ l.inner.component_index < Len(components[l.breadboard])
        /\ l.inner.output_index
             < num_outputs(components[l.breadboard][l.inner.component_index + 1])
    /\ (last.call # "none" /\ ~last.panic) =>
        /\ Range(last.ret) \subseteq lines
        /\ \A k \in DOMAIN last.ret :
            /\ last.ret[k].breadboard = last.bb
            /\ last.ret[k].inner.component_index = Len(components[last.bb]) - 1
            /\ last.ret[k].inner.output_index = k - 1
        /\ IF last.call = "target_info"
           THEN Len(last.ret) = 7 /\ num_outputs(LastAppended) = 7
           ELSE /\ Len(last.ret) = 1
                /\ num_outputs(LastAppended) = 1
                /\ (LastAppended.kind = "Evaluator" =>
                        num_outputs(LastAppended) = Len(LastAppended.exprs))

C22_Witness ==
    /\ last.call = "target_info"
    /\ ~last.panic
    /\ Len(components[last.bb]) = 2
    /\ Cardinality(lines) = 8
    /\ \E l \in lines : l.inner.component_index = 1 /\ l.inner.output_index = 6

\* the entry ids written into a node section besides the node's parameters
WiringEntries == {900, 901, 8000, 8001, 8002, 8003}

\* C23: the block of a completed serialization of N nodes holds exactly the
\* N + 3 sections 3000, 72541 (both empty), 9999 and 72542 + i for each node
\* i, all ids distinct; section 9999 holds exactly the 2N entries 0..2N-1,
\* entry 2i the type identifier of node i and entry 2i+1 the U32 72542 + i;
\* the section of node i holds exactly the node's parameter entries,
\* unchanged, and the entries 900, 901, 8000, 8001, 8002 and 8003.
C23_BlockSections ==
    SerDone =>
        LET N == ser.nodes
            nodeIds == {COMPONENT_ID_START + i : i \in 0..(N - 1)}
        IN /\ DOMAIN ser.data = {3000, 72541, 9999} \cup nodeIds
           /\ Cardinality(DOMAIN ser.data) = N + 3
           /\ Cardinality(nodeIds) = N
           /\ ser.data[3000] = EmptyMap
           /\ ser.data[72541] = EmptyMap
           /\ DOMAIN ser.data[9999] = 0..(2 * N - 1)
           /\ Cardinality(DOMAIN ser.data[9999]) = 2 * N
           /\ \A i \in 0..(N - 1) :
                /\ ser.data[9999][2 * i] = DataEntry("Uuid", uuid(SerNode(i)))
                /\ ser.data[9999][2 * i + 1] = DataEntry("U32", COMPONENT_ID_START + i)
                /\ DOMAIN SerSection(i) = DOMAIN section_data(SerNode(i)) \cup WiringEntries
                /\ DOMAIN section_data(SerNode(i)) \cap WiringEntries = {}
                /\ \A e \in DOMAIN section_data(SerNode(i)) :
                     SerSection(i)[e] = section_data(SerNode(i))[e]

C23_Witness ==
    /\ SerDone
    /\ ser.nodes = 2
    /\ SerNode(1).kind = "Switch"
    /\ DOMAIN section_data(SerNode(1)) = {0, 1}

\* C24: two output expressions whose root operators are different variants
\* applied to the same operands render to different texts.
C24_OperatorsDistinguished ==
    (c_out.kind = "section" /\ Len(c_in.node.exprs) = 2) =>
        LET e1 == c_in.node.exprs[1]
            e2 == c_in.node.exprs[2]
        IN (e1.op # e2.op /\ e1.args = e2.args) =>
              /\ fmt(e1) # fmt(e2)
              /\ c_out.section[0].val # fmt(e1) \o <<44>> \o fmt(e1)

\* the payload length of a scalar entry, by variant
ScalarLength(tag) ==
    CASE tag = "Bool" -> 1
      [] tag \in {"U32", "I32", "F32"} -> 4
      [] tag \in {"I64", "F64", "Vector2"} -> 8
      [] tag = "Uuid" -> 16

\* the number of [id][length][payload] records an entry is written as
RecordCount(entry) ==
    IF entry.tag \in {"Bytes", "String"}
    THEN (IF Len(entry.val) = 0 THEN 1 ELSE (Len(entry.val) + 254) \div 255)
    ELSE 1

RECURSIVE ExpectedIds(_, _, _)
\* the ids a reader meets: each entry's id, once per record, in the order
\* the entries were written
ExpectedIds(section, order, i) ==
    IF i > Len(order) THEN <<>>
    ELSE [k \in 1..RecordCount(section[order[i]]) |-> order[i]]
            \o ExpectedIds(section, order, i + 1)

\* C26: a scalar entry is written as its 2-byte little-endian id, one length
\* byte (1 for Bool, 4 for U32, I32 and F32, 8 for I64, F64 and Vector2, 16
\* for Uuid) and exactly that many payload bytes; in a section of scalar and
\* chunked entries, reading [2-byte id][length n] and skipping n bytes,
\* again and again, meets the id of every record in the order written and
\* ends exactly at the end of the section.
C26_ScalarEntryLayout ==
    /\ (c_out.kind = "scalar") =>
        /\ Len(c_out.bytes) = 3 + ScalarLength(c_in.entry.tag)
        /\ c_out.bytes[1] = c_in.id % 256
        /\ c_out.bytes[2] = c_in.id \div 256
        /\ c_out.bytes[3] = ScalarLength(c_in.entry.tag)
        /\ \A k \in DOMAIN c_out.bytes : c_out.bytes[k] \in 0..255
    /\ (c_out.kind = "section") =>
        LET chunks == ParseChunks(c_out.bytes, 1) IN
        /\ [k \in DOMAIN chunks |-> chunks[k].id] = ExpectedIds(c_in.section, c_out.order, 1)
        /\ SumSeq([k \in DOMAIN chunks |-> 3 + Len(chunks[k].payload)], 1) = Len(c_out.bytes)
        /\ \A k \in DOMAIN chunks :
             LET e == c_in.section[chunks[k].id] IN
             e.tag \notin {"Bytes", "String"} => Len(chunks[k].payload) = ScalarLength(e.tag)

C26_Witness ==
    /\ c_out.kind = "section"
    /\ c_in.section = SectionMixed
    /\ c_out.order = <<8000, 0, U16_MAX, 1, 2>>
    /\ Len(c_out.bytes) = 7 + 306 + 7 + 4 + 7

\* N nodes break one of the two 16-bit bounds: the largest main-section
\* entry id, 2(N-1)+1, or the header length 7(N+3), is above 65535
BreaksBound(N) ==
    \/ N > 0 /\ 2 * (N - 1) + 1 > U16_MAX
    \/ 7 * (N + 3) > U16_MAX

\* the smallest node count that breaks a bound
SmallestBreaking ==
    CHOOSE N \in 0..(U16_MAX + 1) :
        BreaksBound(N) /\ \A M \in 0..(N - 1) : ~BreaksBound(M)

\* C25: saving a graph of N nodes completes only when every main-section
\* entry id 2i and 2i+1 (i < N) and the header length 7 * (N + 3) are at
\* most 65535; for a graph of nodes without inputs it completes for every N
\* below the smallest N that breaks one of the bounds and fails at that N;
\* when it completes, the header length and the last entry id written are
\* the exact values, and the block has N + 3 sections.
C25_SizeLimits ==
    (c_out.kind = "saved") =>
        LET N == c_in.nodes
            r == c_out.r
        IN /\ ~r.panic => ~BreaksBound(N)
           /\ N < SmallestBreaking => ~r.panic
           /\ N = SmallestBreaking => r.panic
           /\ ~r.panic =>
                /\ r.sections = N + 3
                /\ r.header[4] + 256 * r.header[5] = 7 * (N + 3)
                /\ N > 0 => r.last_entry_id[1] + 256 * r.last_entry_id[2] = 2 * N - 1
           /\ N <= 2 =>
                LET d == block_data([i \in 1..N |-> c_in.node], 0).data IN
                /\ DOMAIN d = block_section_ids(N)
                /\ DOMAIN d[9999] = 0..(2 * N - 1)

C25_Witness ==
    /\ c_out.kind = "saved"
    /\ c_in.nodes = SmallestBreaking
    /\ c_in.nodes = 9360
    /\ c_out.r.panic
    /\ ~c_out.r.block_panic

====
